---- MODULE Spec2Model ----
(***************************************************************************)
(* A model of clangd's cross-reference resolution core, XRefs.cpp:         *)
(* locateSymbolAt and its fallback chain, locateASTReferent, the main-file *)
(* reference collector, findReferences, enhanceLocatedSymbolsFromIndex,    *)
(* the type hierarchy and the call hierarchy.                              *)
(*                                                                         *)
(* Every operation runs against an immutable AST snapshot and an external  *)
(* index that answers through callbacks.  Each component has one variable  *)
(* holding the locals of the running request; an index query delivers its  *)
(* callbacks one action at a time.  A component that a specification does  *)
(* not exercise stays Off.                                                 *)
(***************************************************************************)
EXTENDS Integers, Sequences, FiniteSets, TLC

VARIABLES
    tx,   \* locateSymbolTextually: the locals of one call
    ls,   \* locateSymbolAt: the position in the fallback chain
    rf,   \* ReferenceFinder: References and the result of take()
    fr,   \* findReferences: Results and the index queries in flight
    en,   \* enhanceLocatedSymbolsFromIndex: Result and the lookup in flight
    th,   \* type hierarchy: getTypeHierarchy, superTypes, subTypes, resolve
    ch,   \* call hierarchy: incomingCalls and outgoingCalls
    ar,   \* locateASTReferent: Result and the relations query in flight
    pd,   \* getPreferredDecl: an argument and its images
    nb,   \* findNearbyIdentifier: the word and the token found
    cf    \* FindControlFlow: the traversal and what it reported

vars == <<tx, ls, rf, fr, en, th, ch, ar, pd, nb, cf>>

Off == [pc |-> "off"]

\* const SymbolIndex *Index: absent (nullptr) or present.
NullIndex == "nullptr"
SomeIndex == "index"
IndexPtrs == {NullIndex, SomeIndex}

(***************************************************************************)
(* Locations.  A SymbolLocation (index) names its file by URI; a Location  *)
(* (LSP) names it by resolved path.  The null SymbolLocation has an empty  *)
(* FileURI.  A URI whose scheme cannot be resolved does not convert.       *)
(***************************************************************************)
NoURI == [scheme |-> "", body |-> ""]
NoSymbolLocation == [FileURI |-> NoURI, line |-> 0]
NoLocation == [uri |-> "", line |-> 0]

MainFilePath == "/main.cpp"

SymLoc(scheme, body, line) == [FileURI |-> [scheme |-> scheme, body |-> body], line |-> line]

\* SymbolLocation::operator bool
IsValidSymLoc(Loc) == Loc.FileURI # NoURI

\* indexToLSPLocation: fails (NoLocation) when the URI does not resolve.
indexToLSPLocation(Loc, TUPath) ==
    IF Loc.FileURI.scheme = "file"
    THEN [uri |-> Loc.FileURI.body, line |-> Loc.line]
    ELSE NoLocation

\* toLSPLocation: nullopt for the null location and for a failed conversion.
toLSPLocation(Loc, TUPath) ==
    IF ~IsValidSymLoc(Loc) THEN NoLocation ELSE indexToLSPLocation(Loc, TUPath)

\* toIndexLocation: the Location's path as a file URI.
toIndexLocation(Loc) == SymLoc("file", Loc.uri, Loc.line)

(***************************************************************************)
(* Sequence helpers.                                                       *)
(***************************************************************************)
Range(s) == {s[i] : i \in 1..Len(s)}

\* The sequence s with x inserted before position i (1..Len(s)+1).
InsertAt(s, i, x) == SubSeq(s, 1, i - 1) \o <<x>> \o SubSeq(s, i, Len(s))

\* Number of positions of s holding x.
Count(s, x) == Cardinality({i \in 1..Len(s) : s[i] = x})

(***************************************************************************)
(* Sorting.  llvm::sort gives no order among elements the comparator holds *)
(* equivalent, so a sort has a set of outcomes: every arrangement of the   *)
(* input that is ordered by the key.  key is a function from elements to   *)
(* integers, smaller first.                                                *)
(***************************************************************************)
InsertOutcomes(x, r, key) ==
    { InsertAt(r, i, x) : i \in { j \in 1..(Len(r) + 1) :
          /\ \A k \in 1..(j - 1) : key[r[k]] <= key[x]
          /\ \A k \in j..Len(r) : key[x] <= key[r[k]] } }

RECURSIVE SortOutcomes(_, _)
SortOutcomes(s, key) ==
    IF s = <<>> THEN { <<>> }
    ELSE UNION { InsertOutcomes(Head(s), r, key) : r \in SortOutcomes(Tail(s), key) }

(***************************************************************************)
(* locateSymbolTextually: the textual index search of the fallback chain.  *)
(***************************************************************************)
\* The word under the cursor.
WordText == "foo"

\* Req.Limit of the fuzzyFind request.
FuzzyFindLimit == 10
\* ScoredResults.size() >= 5 sets TooMany.
TooManyThreshold == 5
\* The most fuzzyFind results the index delivers in one call.
MaxFuzzyDelivered == 6

\* A Symbol of the index as fuzzyFind delivers it.  Score stands for
\* evaluateSymbolAndRelevance of the symbol's quality and relevance signals.
FuzzySym(id, name, kind, decl, def, score) ==
    [ID |-> id, Name |-> name, TemplateSpecializationArgs |-> "", Kind |-> kind,
     CanonicalDeclaration |-> decl, Definition |-> def, Score |-> score]

FuzzySymbols ==
    { FuzzySym(1, "foo", "Function", SymLoc("file", "/a.h", 1), NoSymbolLocation, 1),
      FuzzySym(2, "foo", "Variable", SymLoc("file", "/b.h", 2), NoSymbolLocation, 2),
      FuzzySym(3, "foo", "Class", SymLoc("file", "/c.h", 3), SymLoc("file", "/c.cpp", 4), 2),
      FuzzySym(4, "Foo", "Class", SymLoc("file", "/d.h", 5), NoSymbolLocation, 3),
      FuzzySym(5, "foo", "Constructor", SymLoc("file", "/c.h", 6), NoSymbolLocation, 3),
      FuzzySym(6, "foo", "Function", SymLoc("unknown", "/e.h", 7), NoSymbolLocation, 3),
      FuzzySym(7, "foo", "Function", SymLoc("file", "/f.h", 8), SymLoc("unknown", "/f.cpp", 9), 3) }

\* SpelledWord as locateSymbolTextually reads it.
SpelledWords ==
    [Text : {WordText}, ExpandedToken : BOOLEAN, LikelyIdentifier : BOOLEAN,
     PartOfSpelledToken : {"none", "string_literal"}]

NodeKinds == {"None", "DeclRefExpr", "OverloadExpr", "CXXDependentScopeMemberExpr",
              "DependentScopeDeclRefExpr", "OverrideAttr", "FinalAttr"}

isDependentName(NodeKind) ==
    NodeKind \in {"OverloadExpr", "CXXDependentScopeMemberExpr", "DependentScopeDeclRefExpr"}

isStringLiteral(kind) == kind = "string_literal"

\* The early returns of locateSymbolTextually: a real identifier that is not a
\* dependent name, an unlikely identifier, no index, a word in a string literal.
TextualBailsOut(Word, NodeKind, Index) ==
    \/ (Word.ExpandedToken /\ ~isDependentName(NodeKind))
    \/ ~Word.LikelyIdentifier
    \/ Index = NullIndex
    \/ (Word.PartOfSpelledToken # "none" /\ isStringLiteral(Word.PartOfSpelledToken))

\* The fuzzyFind callback's filters up to the construction of Located:
\* NoLocation when the symbol is dropped, else the LocatedSymbol.
TextualLocated(Sym, Word) ==
    LET MaybeDeclLoc == indexToLSPLocation(Sym.CanonicalDeclaration, MainFilePath)
        MaybeDefLoc == indexToLSPLocation(Sym.Definition, MainFilePath)
        Name == <<Sym.Name, Sym.TemplateSpecializationArgs>>
    IN  IF Sym.Name # Word.Text THEN NoLocation
        ELSE IF Sym.Kind = "Constructor" THEN NoLocation
        ELSE IF MaybeDeclLoc = NoLocation THEN NoLocation
        ELSE IF IsValidSymLoc(Sym.Definition)
             THEN IF MaybeDefLoc = NoLocation THEN NoLocation
                  ELSE [Name |-> Name, PreferredDeclaration |-> MaybeDefLoc,
                        Definition |-> MaybeDefLoc, ID |-> Sym.ID]
             ELSE [Name |-> Name, PreferredDeclaration |-> MaybeDeclLoc,
                   Definition |-> NoLocation, ID |-> Sym.ID]

\* A variant of the gate that opens one candidate late.
TextualTooMany_Late(ScoredResults) == Len(ScoredResults) > TooManyThreshold

\* ScoredResults.size() >= 5
TextualTooMany(ScoredResults) == Len(ScoredResults) >= TooManyThreshold

\* The sort key of llvm::sort(ScoredResults, A.first > B.first).
ScoredKey(ScoredResults) == [r \in Range(ScoredResults) |-> 0 - r.first]

TxIdle ==
    [pc |-> "idle", Word |-> [Text |-> WordText, ExpandedToken |-> FALSE,
                              LikelyIdentifier |-> TRUE, PartOfSpelledToken |-> "none"],
     NodeKind |-> "None", Index |-> NullIndex, ScoredResults |-> <<>>,
     TooMany |-> FALSE, Results |-> <<>>, queried |-> FALSE,
     Delivered |-> [i \in {s.ID : s \in FuzzySymbols} |-> 0], n |-> 0]

\* locateSymbolTextually up to the fuzzyFind call.
TextualCall(Word, NodeKind, Index) ==
    /\ tx.pc = "idle"
    /\ tx' = IF TextualBailsOut(Word, NodeKind, Index)
             THEN [tx EXCEPT !.pc = "done", !.Word = Word, !.NodeKind = NodeKind,
                             !.Index = Index, !.Results = <<>>]
             ELSE [tx EXCEPT !.pc = "fuzzyFind", !.Word = Word, !.NodeKind = NodeKind,
                             !.Index = Index, !.queried = TRUE]
    /\ UNCHANGED <<ls, rf, fr, en, th, ch, ar, pd, nb, cf>>

\* One invocation of the fuzzyFind callback.
FuzzyFindCallback(Sym) ==
    /\ tx.pc = "fuzzyFind"
    /\ tx.n < FuzzyFindLimit
    /\ tx.n < MaxFuzzyDelivered
    /\ LET Located == TextualLocated(Sym, tx.Word)
           seen == [tx EXCEPT !.n = @ + 1, !.Delivered[Sym.ID] = @ + 1]
       IN  tx' = IF Located = NoLocation THEN seen
                 ELSE IF TextualTooMany(tx.ScoredResults)
                      THEN [seen EXCEPT !.TooMany = TRUE]
                      ELSE [seen EXCEPT !.ScoredResults =
                                Append(@, [first |-> Sym.Score, second |-> Located])]
    /\ UNCHANGED <<ls, rf, fr, en, th, ch, ar, pd, nb, cf>>

\* The results a call returns once fuzzyFind has returned.
TextualResults(ScoredResults, TooMany) ==
    IF TooMany THEN { <<>> }
    ELSE { [i \in 1..Len(sorted) |-> sorted[i].second] :
             sorted \in SortOutcomes(ScoredResults, ScoredKey(ScoredResults)) }

\* locateSymbolTextually after fuzzyFind returned: the TooMany gate, the sort.
TextualReturn ==
    /\ tx.pc = "fuzzyFind"
    /\ \E Results \in TextualResults(tx.ScoredResults, tx.TooMany) :
          tx' = [tx EXCEPT !.pc = "done", !.Results = Results]
    /\ UNCHANGED <<ls, rf, fr, en, th, ch, ar, pd, nb, cf>>

TextualInit ==
    /\ tx = TxIdle
    /\ ls = Off /\ rf = Off /\ fr = Off /\ en = Off /\ th = Off /\ ch = Off
    /\ ar = Off /\ pd = Off /\ nb = Off /\ cf = Off

TextualNext ==
    \/ \E Word \in SpelledWords, NodeKind \in {"None", "OverloadExpr"}, Index \in IndexPtrs :
          TextualCall(Word, NodeKind, Index)
    \/ \E Sym \in FuzzySymbols : FuzzyFindCallback(Sym)
    \/ TextualReturn

SpecTextual == TextualInit /\ [][TextualNext]_vars

(***************************************************************************)
(* Claims about locateSymbolTextually.                                     *)
(***************************************************************************)
\* The result cap the comment at the fuzzyFind request announces.
ResultCap == 3

\* C1: locateSymbolTextually never returns more than 3 results, whatever the
\* index's fuzzyFind delivers.
C1_AtMostThreeResults == tx.pc = "done" => Len(tx.Results) <= ResultCap

\* A delivered symbol survives the filters the claim lists: exact
\* case-sensitive name match, not a constructor, declaration location
\* convertible, definition location (if any) convertible.
C2_Survives(Sym) ==
    /\ Sym.Name = WordText
    /\ Sym.Kind # "Constructor"
    /\ Sym.CanonicalDeclaration.FileURI.scheme = "file"
    /\ Sym.Definition.FileURI.scheme \in {"", "file"}

C2_Survivors == {s \in FuzzySymbols : C2_Survives(s)}

RECURSIVE C2_Sum(_, _)
C2_Sum(f, S) ==
    IF S = {} THEN 0
    ELSE LET x == CHOOSE y \in S : TRUE IN f[x.ID] + C2_Sum(f, S \ {x})

C2_SurvivorCount == C2_Sum(tx.Delivered, C2_Survivors)

\* The symbol a returned LocatedSymbol was built from.
C2_SymbolOf(Located) == CHOOSE s \in FuzzySymbols : s.ID = Located.ID

Located(name, decl, def, id) ==
    [Name |-> name, PreferredDeclaration |-> decl, Definition |-> def, ID |-> id]

\* Two symbols the AST or the index may resolve to.
LocatedA == Located(<<"foo", "">>, [uri |-> "/a.h", line |-> 1], NoLocation, 1)
LocatedB == Located(<<"foo", "">>, [uri |-> "/c.cpp", line |-> 4], [uri |-> "/c.cpp", line |-> 4], 3)
\* locateFileReferent: an #include line, the empty Range.
LocatedFile == Located(<<"inc.h", "">>, [uri |-> "/inc.h", line |-> 0], [uri |-> "/inc.h", line |-> 0], 0)

\* locateMacroAt for an identifier token: no macro, or a macro and whether
\* makeLocation can place its NameLoc in a file.
NoMacro == [Name |-> <<>>]
MacrosAt ==
    { NoMacro,
      [Name |-> <<"FOO", "">>, NameLoc |-> [uri |-> "/m.h", line |-> 2], ID |-> 8],
      [Name |-> <<"BAR", "">>, NameLoc |-> NoLocation, ID |-> 9] }

\* A variant that leaves the Definition empty.
locateMacroReferent_NoDefinition(M) ==
    IF M = NoMacro \/ M.NameLoc = NoLocation THEN <<>>
    ELSE <<Located(M.Name, M.NameLoc, NoLocation, M.ID)>>

\* locateMacroReferent: the macro's name location as declaration and
\* definition, std::nullopt (no symbol) without a macro or a location.
locateMacroReferent(M) ==
    IF M = NoMacro \/ M.NameLoc = NoLocation THEN <<>>
    ELSE <<Located(M.Name, M.NameLoc, M.NameLoc, M.ID)>>

LocatedResults == { <<>>, <<LocatedA>>, <<LocatedB>>, <<LocatedA, LocatedB>> }

\* A variant of the test under which a non-empty result does not end the chain.
ReturnsNow_Never(Results) == FALSE

\* if (!Results.empty()) return Results;
ReturnsNow(Results) == Results # <<>>

\* A variant that searches for a word in a string literal too.
NearbyBailsOut_RealTokenOnly(Word) == Word.ExpandedToken

\* findNearbyIdentifier's early returns: a real identifier, a string literal.
NearbyBailsOut(Word) ==
    \/ Word.ExpandedToken
    \/ (Word.PartOfSpelledToken # "none" /\ isStringLiteral(Word.PartOfSpelledToken))

LsIdle ==
    [pc |-> "idle", Index |-> NullIndex, TouchedIdentifier |-> FALSE,
     NodeKind |-> "None", Word |-> "none", log |-> <<>>, Result |-> <<>>,
     PosValid |-> TRUE]

LsStep(step, Results) == [step |-> step, Results |-> Results]

\* Return Results from locateSymbolAt.
LsReturn(state, Results) == [state EXCEPT !.pc = "done", !.Result = Results]

\* locateSymbolAt up to the tokens touching the cursor: an #include on the
\* line of the position yields the file, an invalid position yields nothing.
\* PosValid keeps whether sourceLocationInMainFile accepts the position.
LocateCall(Index, IncludeOnLine, PosValid) ==
    /\ ls.pc = "idle"
    /\ LET Called == [ls EXCEPT !.Index = Index, !.PosValid = PosValid]
       IN  ls' = IF IncludeOnLine
                 THEN LsReturn([Called EXCEPT
                                  !.log = Append(@, LsStep("file", <<LocatedFile>>))],
                               <<LocatedFile>>)
                 ELSE IF ~PosValid
                 THEN LsReturn(Called, <<>>)
                 ELSE [Called EXCEPT !.pc = "tokens"]
    /\ UNCHANGED <<tx, rf, fr, en, th, ch, ar, pd, nb, cf>>

\* The loop over TokensTouchingCursor, for the first token that ends it: an
\* identifier (a macro returns; otherwise it is the TouchedIdentifier), auto or
\* decltype with a deduced type that resolves, or no such token.
LocateTouching(TokKind, Macro, Deduced) ==
    /\ ls.pc = "tokens"
    /\ ls' = IF TokKind = "identifier" /\ Macro # <<>>
             THEN LsReturn([ls EXCEPT !.log = Append(@, LsStep("macro", Macro))], Macro)
             ELSE IF TokKind = "identifier"
             THEN [ls EXCEPT !.pc = "direct", !.TouchedIdentifier = TRUE]
             ELSE IF TokKind \in {"kw_auto", "kw_decltype"} /\ ReturnsNow(Deduced)
             THEN LsReturn([ls EXCEPT !.log = Append(@, LsStep("auto", Deduced))], Deduced)
             ELSE [ls EXCEPT !.pc = "direct"]
    /\ UNCHANGED <<tx, rf, fr, en, th, ch, ar, pd, nb, cf>>

\* locateASTReferent at the cursor.
LocateDirect(ASTResults, NodeKind) ==
    /\ ls.pc = "direct"
    /\ LET tried == [ls EXCEPT !.NodeKind = NodeKind,
                               !.log = Append(@, LsStep("direct", ASTResults))]
       IN  ls' = IF ReturnsNow(ASTResults) THEN LsReturn(tried, ASTResults)
                 ELSE [tried EXCEPT !.pc = "fallback"]
    /\ UNCHANGED <<tx, rf, fr, en, th, ch, ar, pd, nb, cf>>

\* SpelledWord::touching failed: no fallback applies.
LocateNoWord ==
    /\ ls.pc = "fallback"
    /\ ls' = LsReturn(ls, <<>>)
    /\ UNCHANGED <<tx, rf, fr, en, th, ch, ar, pd, nb, cf>>

\* The fallbacks for a word: the nearby identifier (a macro, else
\* locateASTReferent at it), then locateSymbolTextually.
LocateFallback(Word, NearbyFound, NearbyMacro, NearbyResults, IndexAnswer) ==
    /\ ls.pc = "fallback"
    /\ LET NearbyIdent == NearbyFound /\ ~NearbyBailsOut(Word)
           Nearby == IF ~NearbyIdent THEN <<>>
                     ELSE IF NearbyMacro # <<>> THEN NearbyMacro ELSE NearbyResults
           tried == [ls EXCEPT !.Word = Word, !.log = Append(@, LsStep("nearby", Nearby))]
           FromIndex == IF TextualBailsOut(Word, ls.NodeKind, ls.Index)
                             THEN <<>> ELSE IndexAnswer
           triedBoth == [tried EXCEPT !.log = Append(@, LsStep("textual", FromIndex))]
       IN  ls' = IF NearbyIdent /\ NearbyMacro # <<>> THEN LsReturn(tried, Nearby)
                 ELSE IF NearbyIdent /\ ReturnsNow(NearbyResults) THEN LsReturn(tried, Nearby)
                 ELSE IF ReturnsNow(FromIndex) THEN LsReturn(triedBoth, FromIndex)
                 ELSE LsReturn(triedBoth, <<>>)
    /\ UNCHANGED <<tx, rf, fr, en, th, ch, ar, pd, nb, cf>>

LocateInit ==
    /\ ls = LsIdle
    /\ tx = Off /\ rf = Off /\ fr = Off /\ en = Off /\ th = Off /\ ch = Off
    /\ ar = Off /\ pd = Off /\ nb = Off /\ cf = Off

LocateNext ==
    \/ \E Index \in IndexPtrs, IncludeOnLine \in BOOLEAN, PosValid \in BOOLEAN :
          LocateCall(Index, IncludeOnLine, PosValid)
    \/ \E TokKind \in {"identifier", "kw_auto", "kw_decltype", "other"},
          M \in MacrosAt, Deduced \in LocatedResults :
          LocateTouching(TokKind, locateMacroReferent(M), Deduced)
    \/ \E ASTResults \in LocatedResults, NodeKind \in {"None", "OverloadExpr"} :
          LocateDirect(ASTResults, NodeKind)
    \/ LocateNoWord
    \/ \E Word \in SpelledWords, NearbyFound \in BOOLEAN, M \in MacrosAt,
          NearbyResults \in LocatedResults, IndexAnswer \in LocatedResults :
          LocateFallback(Word, NearbyFound, locateMacroReferent(M), NearbyResults,
                         IndexAnswer)

SpecLocate == LocateInit /\ [][LocateNext]_vars

(***************************************************************************)
(* Claims about locateSymbolAt.                                            *)
(***************************************************************************)
C3_StepsBefore(i, step) == {j \in 1..(i - 1) : ls.log[j].step = step}

\* C3: the fallback steps of locateSymbolAt run strictly in order and each
\* only after the previous produced nothing: the nearby-identifier step only
\* after direct resolution returned nothing, the textual search only after both
\* returned nothing; the first non-empty step's result is returned unchanged.
C3_FallbackOrder ==
    /\ \A i \in 1..Len(ls.log) :
          /\ ls.log[i].step = "nearby" =>
                /\ C3_StepsBefore(i, "direct") # {}
                /\ \A j \in 1..(i - 1) : ls.log[j].Results = <<>>
          /\ ls.log[i].step = "textual" =>
                /\ C3_StepsBefore(i, "direct") # {}
                /\ C3_StepsBefore(i, "nearby") # {}
                /\ \A j \in 1..(i - 1) : ls.log[j].Results = <<>>
          /\ ls.log[i].Results # <<>> => i = Len(ls.log) /\ ls.pc = "done"
    /\ ls.pc = "done" =>
          ls.Result = IF ls.log # <<>> THEN ls.log[Len(ls.log)].Results ELSE <<>>

\* Witness for C3: all three steps ran and the textual search gave the result.
C3_Witness ==
    /\ ls.pc = "done"
    /\ Len(ls.log) = 3
    /\ ls.log[3].step = "textual"
    /\ ls.Result = <<LocatedA, LocatedB>>

\* The chain ended at a macro: the touched identifier's, or the nearby
\* identifier's.
C22_ReturnedMacro ==
    /\ ls.pc = "done"
    /\ ls.log # <<>>
    /\ LET last == ls.log[Len(ls.log)]
       IN  \/ last.step = "macro"
           \/ last.step = "nearby" /\ last.Results # <<>>
                 /\ \E M \in MacrosAt : last.Results = locateMacroReferent(M)

\* C22: when the touched identifier or the identifier of the nearby search
\* names a macro with a usable location, locateSymbolAt returns exactly one
\* symbol, whose Definition is its PreferredDeclaration, and the textual
\* index search does not run.
C22_MacroAloneWithoutIndex ==
    C22_ReturnedMacro =>
        /\ Len(ls.Result) = 1
        /\ ls.Result[1].Definition = ls.Result[1].PreferredDeclaration
        /\ ls.Result[1].Definition # NoLocation
        /\ \A k \in 1..Len(ls.log) : ls.log[k].step \notin {"textual", "auto"}

\* The nearby identifier was a macro: direct resolution gave nothing, the
\* macro is the result.
C22_Witness ==
    /\ ls.pc = "done"
    /\ Len(ls.log) = 2
    /\ ls.log[1].step = "direct"
    /\ ls.log[2].step = "nearby"
    /\ Len(ls.Result) = 1
    /\ ls.Result[1].Name = <<"FOO", "">>

\* C18: whenever the position does not map to a valid location in the main
\* file, locateSymbolAt returns an empty result and makes no index query.
C18_InvalidPositionYieldsNothing ==
    (ls.pc = "done" /\ ~ls.PosValid) =>
        /\ ls.Result = <<>>
        /\ \A k \in 1..Len(ls.log) : ls.log[k].step # "textual"

(***************************************************************************)
(* Type hierarchy: fillSubTypes and the entry points that resolve an item  *)
(* from the index (superTypes, subTypes, resolveTypeHierarchy).            *)
(*                                                                         *)
(* The index holds class symbols 1..4 and the base-of relation IdxBaseOf   *)
(* (subject is a base of object); it answers relations and lookup requests *)
(* in ascending order of SymbolID.  Symbol 4 has a location whose URI does *)
(* not resolve; SymbolID 5 is unknown to the index.                        *)
(***************************************************************************)
IdxTypeIDs == 1..4

IdxTypeSymbol(id) ==
    [ID |-> id, Name |-> <<"T", id>>,
     CanonicalDeclaration |-> IF id = 4 THEN SymLoc("unknown", "/t.h", id)
                              ELSE SymLoc("file", "/t.h", id),
     Definition |-> NoSymbolLocation]

IdxBaseOf == { <<1, 2>>, <<1, 4>>, <<2, 3>>, <<3, 1>> }

\* The elements of a set of SymbolIDs in ascending order.
RECURSIVE Ascending(_)
Ascending(S) ==
    IF S = {} THEN <<>>
    ELSE LET lo == CHOOSE x \in S : \A y \in S : x <= y
         IN  <<lo>> \o Ascending(S \ {lo})

\* symbolToLocation: the definition if there is one, else the declaration.
symbolToLocation(S, TUPath) ==
    indexToLSPLocation(IF IsValidSymLoc(S.Definition) THEN S.Definition
                       ELSE S.CanonicalDeclaration, TUPath)

\* std::optional<std::vector<...>>: std::nullopt, or present with its elements.
None == [has |-> FALSE, v |-> <<>>]
Some(v) == [has |-> TRUE, v |-> v]

\* std::nullopt of std::optional<TypeHierarchyItem>.
NoItem == [name |-> <<>>]

\* symbolToTypeHierarchyItem: std::nullopt when the location does not convert.
symbolToTypeHierarchyItem(S, TUPath) ==
    LET Loc == symbolToLocation(S, TUPath)
    IN  IF Loc = NoLocation THEN NoItem
        ELSE [name |-> S.Name, uri |-> Loc.uri, line |-> Loc.line,
              data |-> [symbolID |-> S.ID, parents |-> None],
              children |-> None]

\* A variant that also fills the children of the deepest level.
FillsBelow_Always(Levels) == Levels > 0

\* if (Levels > 1): the children of a child are filled too.
FillsBelow(Levels) == Levels > 1

\* fillSubTypes: the items appended to SubTypes.
RECURSIVE fillSubTypes(_, _, _)
fillSubTypes(ID, Levels, TUPath) ==
    LET Objects == Ascending({r[2] : r \in {q \in IdxBaseOf : q[1] = ID}})
        Child(i) ==
            LET ChildSym == symbolToTypeHierarchyItem(IdxTypeSymbol(Objects[i]), TUPath)
            IN  IF ChildSym = NoItem THEN <<>>
                ELSE IF FillsBelow(Levels)
                     THEN <<[ChildSym EXCEPT !.children =
                                 Some(fillSubTypes(Objects[i], Levels - 1, TUPath))]>>
                     ELSE <<ChildSym>>
        F[i \in 0..Len(Objects)] == IF i = 0 THEN <<>> ELSE F[i - 1] \o Child(i)
    IN  F[Len(Objects)]

\* The relations requests one fillSubTypes call issues, its recursive calls
\* included.
RECURSIVE fillSubTypesRequests(_, _, _)
fillSubTypesRequests(ID, Levels, TUPath) ==
    LET Objects == Ascending({r[2] : r \in {q \in IdxBaseOf : q[1] = ID}})
        Below(i) ==
            IF symbolToTypeHierarchyItem(IdxTypeSymbol(Objects[i]), TUPath) # NoItem
               /\ FillsBelow(Levels)
            THEN fillSubTypesRequests(Objects[i], Levels - 1, TUPath) ELSE 0
        F[i \in 0..Len(Objects)] == IF i = 0 THEN 0 ELSE F[i - 1] + Below(i)
    IN  1 + F[Len(Objects)]

\* TypeHierarchyItem::ResolveParams of two parents.
ResolveParamsOf(id) == [symbolID |-> id, parents |-> None]

\* The items a client may pass back: a symbol the index knows or not, with
\* data.parents absent, empty or filled.
HierarchyItems ==
    { [name |-> <<"T", id>>, uri |-> "/t.h", line |-> id,
       data |-> [symbolID |-> id, parents |-> ps], children |-> None] :
        id \in {1, 2, 3, 5},
        ps \in {None, Some(<<>>), Some(<<ResolveParamsOf(2)>>),
                Some(<<ResolveParamsOf(3), ResolveParamsOf(4), ResolveParamsOf(5)>>)} }

TypeHierarchyDirections == {"Children", "Parents", "Both"}

ThIdle ==
    [pc |-> "idle", op |-> "none", Index |-> NullIndex, Item |-> NoItem,
     status |-> "none", Results |-> None, requests |-> 0, requestsOnNull |-> 0]

\* A call that used Index `requests` times: dereferencing an absent index is
\* undefined behaviour, after which the call may crash or return anything it
\* had built so far.
ThOutcomes(op, Index, Item, Results, requests) ==
    IF Index = NullIndex /\ requests > 0
    THEN { [pc |-> "done", op |-> op, Index |-> Index, Item |-> Item, status |-> st,
            Results |-> None, requests |-> 0, requestsOnNull |-> 1] :
              st \in {"crashed", "returned"} }
    ELSE { [pc |-> "done", op |-> op, Index |-> Index, Item |-> Item,
            status |-> "returned", Results |-> Results, requests |-> requests,
            requestsOnNull |-> 0] }

\* The lookup callback of superTypes over the symbols the index holds.
SuperTypesResults(Item) ==
    LET Parents == Item.data.parents.v
        IDs == Ascending({Parents[i].symbolID : i \in 1..Len(Parents)} \cap IdxTypeIDs)
        \* IDToData[ID] = &Parent: the last parent with this ID.
        IDToData(id) == Parents[CHOOSE i \in 1..Len(Parents) :
                                    /\ Parents[i].symbolID = id
                                    /\ \A j \in (i + 1)..Len(Parents) : Parents[j].symbolID # id]
        One(i) ==
            LET THI == symbolToTypeHierarchyItem(IdxTypeSymbol(IDs[i]), Item.uri)
            IN  IF THI = NoItem THEN <<>> ELSE <<[THI EXCEPT !.data = IDToData(IDs[i])]>>
        F[i \in 0..Len(IDs)] == IF i = 0 THEN <<>> ELSE F[i - 1] \o One(i)
    IN  F[Len(IDs)]

\* superTypes(Item, Index)
SuperTypes(Item, Index) ==
    /\ th' \in IF ~Item.data.parents.has
               THEN ThOutcomes("superTypes", Index, Item, None, 0)
               ELSE IF Item.data.parents.v = <<>>
               THEN ThOutcomes("superTypes", Index, Item, Some(<<>>), 0)
               ELSE ThOutcomes("superTypes", Index, Item, Some(SuperTypesResults(Item)), 1)
    /\ UNCHANGED <<tx, ls, rf, fr, en, ch, ar, pd, nb, cf>>

\* subTypes(Item, Index)
SubTypes(Item, Index) ==
    /\ LET Filled == fillSubTypes(Item.data.symbolID, 1, Item.uri)
           Results == [i \in 1..Len(Filled) |->
                          [Filled[i] EXCEPT !.data.parents = Some(<<Item.data>>)]]
       IN  th' \in ThOutcomes("subTypes", Index, Item, Some(Results),
                              fillSubTypesRequests(Item.data.symbolID, 1, Item.uri))
    /\ UNCHANGED <<tx, ls, rf, fr, en, ch, ar, pd, nb, cf>>

\* resolveTypeHierarchy(Item, ResolveLevels, Direction, Index): the result is
\* the item as the call leaves it.
ResolveTypeHierarchy(Item, ResolveLevels, Direction, Index) ==
    /\ th' \in IF Index = NullIndex \/ Direction = "Parents" \/ ResolveLevels = 0
               THEN ThOutcomes("resolveTypeHierarchy", Index, Item, Some(<<Item>>), 0)
               ELSE ThOutcomes("resolveTypeHierarchy", Index, Item,
                        Some(<<[Item EXCEPT !.children =
                              Some(fillSubTypes(Item.data.symbolID, ResolveLevels, Item.uri))]>>),
                        fillSubTypesRequests(Item.data.symbolID, ResolveLevels, Item.uri))
    /\ UNCHANGED <<tx, ls, rf, fr, en, ch, ar, pd, nb, cf>>

\* The deepest resolve a client asks for.
MaxResolveLevels == 2

HierarchyInit ==
    /\ th = ThIdle
    /\ tx = Off /\ ls = Off /\ rf = Off /\ fr = Off /\ en = Off /\ ch = Off
    /\ ar = Off /\ pd = Off /\ nb = Off /\ cf = Off

HierarchyNext ==
    \/ \E Item \in HierarchyItems, Index \in IndexPtrs : SuperTypes(Item, Index)
    \/ \E Item \in HierarchyItems, Index \in IndexPtrs : SubTypes(Item, Index)
    \/ \E Item \in HierarchyItems, Index \in IndexPtrs, ResolveLevels \in 0..MaxResolveLevels,
          Direction \in TypeHierarchyDirections :
          ResolveTypeHierarchy(Item, ResolveLevels, Direction, Index)

SpecHierarchy == HierarchyInit /\ [][HierarchyNext]_vars

(***************************************************************************)
(* Claims about the absent index.                                          *)
(***************************************************************************)
\* C4: an exposed operation called with an absent (null) index completes with
\* a well-formed result and never issues a query on the absent index.
C4_AbsentIndexIsSafe ==
    (th.pc = "done" /\ th.Index = NullIndex) =>
        (th.status = "returned" /\ th.requestsOnNull = 0)

(***************************************************************************)
(* ReferenceFinder: the collector of references within the main file, and  *)
(* findRefs, which runs the indexer over the main file and takes its       *)
(* references.                                                             *)
(*                                                                         *)
(* The main file has a token at offsets 0..1 and a token at offset 2;      *)
(* offset 3 is in no token.  Declaration 2 is a redeclaration of 1.        *)
(***************************************************************************)
RefDecls == {1, 2, 3}

getCanonicalDecl(D) == IF D = 2 THEN 1 ELSE D

MainLoc(off) == [file |-> "main", off |-> off]

\* Locations the indexer reports: in the main file, in a header, and a macro
\* location whose file location is offset 2 of the main file.
SourceLocations ==
    { MainLoc(off) : off \in 0..3 } \cup
    { [file |-> "header", off |-> 0], [file |-> "macro", off |-> 2] }

isInsideMainFile(Loc) == Loc.file # "header"

getFileLoc(Loc) == IF Loc.file = "macro" THEN MainLoc(Loc.off) ELSE Loc

\* TB.spelledTokenContaining(L): the start of the token, NoToken for nullptr.
NoToken == 0 - 1

spelledTokenContaining(L) ==
    IF L.file # "main" THEN NoToken
    ELSE IF L.off \in {0, 1} THEN 0
    ELSE IF L.off = 2 THEN 2
    ELSE NoToken

\* index::SymbolRoleSet values: Declaration, Reference.
RoleSets == {1, 4}

\* The selector locations of the ObjCMessageExpr or ObjCMethodDecl of
\* ASTNode, empty for any other node.
SelectorLocs == { <<>>, <<MainLoc(0), MainLoc(2)>>, <<MainLoc(2), MainLoc(0)>> }

\* The declarations SymbolCollector::getRefContainer answers.
RefContainers == {1, 2}

\* Calls of handleDeclOccurrence in one run of the indexer.
MaxOccurrences == 3

\* The comparator of take(): std::tie(LTok, L.Role) < std::tie(RTok, R.Role).
RefLess(L, R) ==
    \/ L.SpelledTok < R.SpelledTok
    \/ L.SpelledTok = R.SpelledTok /\ L.Role < R.Role

\* The rank of each reference in the order of RefLess.
RefKey(References) ==
    [r \in Range(References) |-> r.SpelledTok * 8 + r.Role]

\* The predicate of llvm::unique in take().
RefSame(L, R) == L.SpelledTok = R.SpelledTok /\ L.Role = R.Role

\* A variant of take() that leaves References as reported.
SortedReferences_Unsorted(References) == { References }

\* llvm::sort(References, ...)
SortedReferences(References) == SortOutcomes(References, RefKey(References))

\* A variant of take() that erases nothing.
UniqueReferences_KeepAll(References) == References

\* References.erase(llvm::unique(References, ...), References.end()): of each
\* run of adjacent equal references the first stays.
UniqueReferences(References) ==
    LET F[i \in 0..Len(References)] ==
            IF i = 0 THEN <<>>
            ELSE IF i > 1 /\ RefSame(References[i - 1], References[i])
                 THEN F[i - 1]
                 ELSE Append(F[i - 1], References[i])
    IN  F[Len(References)]

\* A variant of handleDeclOccurrence that keeps the selector locations
\* whatever the first of them is.
OccurrenceLocs_Unchecked(PerToken, Selector, Loc) ==
    IF PerToken /\ Selector # <<>> THEN Selector ELSE <<Loc>>

\* The vector Locs of handleDeclOccurrence: the selector locations in
\* per-token mode, cleared when the first is not Loc, and Loc alone when the
\* vector is empty.
OccurrenceLocs(PerToken, Selector, Loc) ==
    LET Guess == IF PerToken THEN Selector ELSE <<>>
        Checked == IF Guess # <<>> /\ Guess[1] # Loc THEN <<>> ELSE Guess
    IN  IF Checked = <<>> THEN <<Loc>> ELSE Checked

\* No occurrence has passed the filters of handleDeclOccurrence yet.
NoOccurrence == [on |-> FALSE, Loc |-> MainLoc(0), Selector |-> <<>>, From |-> 0]

\* Last is history: the last occurrence that passed the filters, with the
\* size of References before it.
RfIdle ==
    [pc |-> "idle", PerToken |-> FALSE, TargetDecls |-> {}, References |-> <<>>,
     Reported |-> <<>>, Result |-> <<>>, Last |-> NoOccurrence]

\* findRefs(TargetDecls, AST, PerToken): constructs the ReferenceFinder.
FindRefsCall(Targets, PerToken) ==
    /\ rf.pc = "idle"
    /\ rf' = [rf EXCEPT !.pc = "indexing", !.PerToken = PerToken,
                        !.TargetDecls = { getCanonicalDecl(ND) : ND \in Targets }]
    /\ UNCHANGED <<tx, ls, fr, en, th, ch, ar, pd, nb, cf>>

\* ReferenceFinder::handleDeclOccurrence(D, Roles, Relations, Loc, ASTNode);
\* Selector is the selector locations of ASTNode, Container the container of
\* ASTNode.Parent.
HandleDeclOccurrence(D, Roles, Loc, Selector, Container) ==
    /\ rf.pc = "indexing"
    /\ Len(rf.References) < MaxOccurrences
    /\ IF getCanonicalDecl(D) \notin rf.TargetDecls \/ ~isInsideMainFile(Loc)
       THEN rf' = rf
       ELSE LET Locs == OccurrenceLocs(rf.PerToken, Selector, Loc)
                F[i \in 0..Len(Locs)] ==
                    IF i = 0 THEN rf.References
                    ELSE LET Tok == spelledTokenContaining(getFileLoc(Locs[i]))
                         IN  IF Tok = NoToken THEN F[i - 1]
                             ELSE Append(F[i - 1], [SpelledTok |-> Tok, Role |-> Roles,
                                                    Container |-> Container])
            IN  rf' = [rf EXCEPT !.References = F[Len(Locs)],
                                 !.Last = [on |-> TRUE, Loc |-> Loc,
                                           Selector |-> Selector,
                                           From |-> Len(rf.References)]]
    /\ UNCHANGED <<tx, ls, fr, en, th, ch, ar, pd, nb, cf>>

\* std::move(RefFinder).take(): the references of the run, Reported, are
\* sorted, made unique and moved out.
Take ==
    /\ rf.pc = "indexing"
    /\ \E Sorted \in SortedReferences(rf.References) :
          rf' = [rf EXCEPT !.pc = "done", !.Reported = rf.References,
                           !.References = <<>>, !.Last = NoOccurrence,
                           !.Result = UniqueReferences(Sorted)]
    /\ UNCHANGED <<tx, ls, fr, en, th, ch, ar, pd, nb, cf>>

RefsInit ==
    /\ rf = RfIdle
    /\ tx = Off /\ ls = Off /\ fr = Off /\ en = Off /\ th = Off /\ ch = Off
    /\ ar = Off /\ pd = Off /\ nb = Off /\ cf = Off

RefsNext ==
    \/ \E Targets \in {{2}, {3}}, PerToken \in BOOLEAN : FindRefsCall(Targets, PerToken)
    \/ \E D \in RefDecls, Roles \in RoleSets, Loc \in SourceLocations,
          Selector \in SelectorLocs, Container \in RefContainers :
          HandleDeclOccurrence(D, Roles, Loc, Selector, Container)
    \/ Take

SpecRefs == RefsInit /\ [][RefsNext]_vars

(***************************************************************************)
(* Claims about the references of the main file.                           *)
(***************************************************************************)
\* C5: the list take() returns is non-decreasing in the lexicographic order
\* (token location, role), whatever handleDeclOccurrence calls produced it.
C5_SortedByLocationAndRole ==
    rf.pc = "done" =>
        \A i, j \in 1..Len(rf.Result) :
            i < j => ~RefLess(rf.Result[j], rf.Result[i])

\* The indexer reported a later token before an earlier one, and both are
\* returned.
C5_Witness ==
    /\ rf.pc = "done"
    /\ Len(rf.Result) >= 2
    /\ \E i, j \in 1..Len(rf.Reported) :
          i < j /\ RefLess(rf.Reported[j], rf.Reported[i])

\* C6: the list take() returns has no two entries with the same token
\* location and the same role, even when an occurrence was reported several
\* times.
C6_NoDuplicateReferences ==
    rf.pc = "done" =>
        \A i, j \in 1..Len(rf.Result) :
            i # j => ~RefSame(rf.Result[i], rf.Result[j])

\* An occurrence was reported twice, with another occurrence between the two
\* reports, and is returned once.
C6_Witness ==
    /\ rf.pc = "done"
    /\ \E i, j, k \in 1..Len(rf.Reported) :
          /\ i < k /\ k < j
          /\ RefSame(rf.Reported[i], rf.Reported[j])
          /\ ~RefSame(rf.Reported[i], rf.Reported[k])
    /\ Len(rf.Result) = 2

\* The references the last occurrence appended.
C27_Yielded == SubSeq(rf.References, rf.Last.From + 1, Len(rf.References))

\* The references of the locations Locs, in order: one for each location
\* that lies in a spelled token, at that token.
C27_TokensAt(Locs) ==
    LET F[i \in 0..Len(Locs)] ==
            IF i = 0 THEN <<>>
            ELSE LET Tok == spelledTokenContaining(getFileLoc(Locs[i]))
                 IN  IF Tok = NoToken THEN F[i - 1] ELSE Append(F[i - 1], Tok)
    IN  F[Len(Locs)]

NoSymbolID == 0

getSymbolID(D) == IF D = 6 THEN NoSymbolID ELSE D

isVirtualCXXMethod(D) == D \in {1, 2, 3}

isObjCMethod(D) == D = 8

getParentFunctionOrMethod(D) == D = 5

overridden_methods(D) ==
    CASE D = 2 -> {1}
      [] D = 3 -> {2}
      [] OTHER -> {}

\* A variant that stops at the methods CMD overrides directly.
getOverriddenMethods_Direct(CMD) ==
    { getSymbolID(Base) : Base \in overridden_methods(CMD) } \ {NoSymbolID}

\* getOverriddenMethods: every method CMD overrides, in the complete type
\* hierarchy.
RECURSIVE getOverriddenMethods(_)
getOverriddenMethods(CMD) ==
    UNION { ({getSymbolID(Base)} \ {NoSymbolID}) \cup getOverriddenMethods(Base) :
              Base \in overridden_methods(CMD) }

\* The macro under the cursor and its references in the main file.
MacroSID == 10

MacroRefs == << [line |-> 5, IsDefinition |-> TRUE], [line |-> 6, IsDefinition |-> FALSE] >>

\* What is under the cursor: a position outside the file, an #include line
\* with references, a macro (with or without SymbolID), or declarations.
Cursors ==
    { [kind |-> k, Decls |-> <<>>] : k \in {"badpos", "include", "macro", "macro_noid"} }
    \cup { [kind |-> "decls", Decls |-> ds] :
             ds \in { <<>>, <<1>>, <<2>>, <<3>>, <<4>>, <<5>>, <<6>>, <<8>> } }

\* Results of findRefs for the targets: sorted by (location, role), unique.
MainFileRefChoices ==
    { <<>>,
      << [SpelledTok |-> 0, Role |-> 3, Container |-> 0] >>,
      << [SpelledTok |-> 0, Role |-> 1, Container |-> 4],
         [SpelledTok |-> 0, Role |-> 4, Container |-> 4],
         [SpelledTok |-> 2, Role |-> 4, Container |-> 4] >> }

\* Role & static_cast<unsigned>(index::SymbolRole::...), bit = 1 for
\* Declaration and 2 for Definition.
HasRole(Role, bit) == (Role \div bit) % 2 = 1

\* llvm::unique by SpelledTok.location()
UniqueByLocation(Refs) ==
    LET F[i \in 0..Len(Refs)] ==
            IF i = 0 THEN <<>>
            ELSE IF i > 1 /\ Refs[i - 1].SpelledTok = Refs[i].SpelledTok
                 THEN F[i - 1]
                 ELSE Append(F[i - 1], Refs[i])
    IN  F[Len(Refs)]

\* stringifyContainerForMainFileRef: nothing for a null container.
stringifyContainerForMainFileRef(Container) ==
    IF Container = 0 THEN <<>> ELSE <<"", "g">>

\* The references of the index.
IdxRef(n, ID, Location, Kind, Container) ==
    [n |-> n, ID |-> ID, Location |-> Location, Kind |-> Kind, Container |-> Container]

IdxRefs ==
    { IdxRef(1, 1, SymLoc("file", "/a.cpp", 11), {"Declaration", "Definition"}, 20),
      IdxRef(2, 1, SymLoc("file", MainFilePath, 12), {"Reference"}, 21),
      IdxRef(3, 1, SymLoc("unknown", "/x.cpp", 13), {"Reference"}, 20),
      IdxRef(4, 2, SymLoc("file", "/b.cpp", 25), {"Declaration", "Definition"}, 20),
      IdxRef(5, 2, SymLoc("file", MainFilePath, 22), {"Reference"}, 21),
      IdxRef(6, 3, SymLoc("file", "/c.cpp", 31), {"Reference"}, 20),
      IdxRef(7, 4, SymLoc("file", "/g.cpp", 41), {"Declaration"}, 20),
      IdxRef(8, MacroSID, SymLoc("file", "/m.h", 81), {"Reference"}, 20) }

\* RelationKind::OverriddenBy in the index: <<base method, overriding method>>.
\* Method 7 (D::f) overrides A::f in another translation unit.
IdxOverriddenBy == { <<1, 2>>, <<2, 3>>, <<1, 7>> }

\* The symbols the index can look up.
IdxSymbolIDs == {2, 3, 7, 20}

IdxSymbol(id) ==
    CASE id = 2 -> [ID |-> 2, Scope |-> "B::", Name |-> "f",
                    CanonicalDeclaration |-> SymLoc("file", "/b.h", 20),
                    Definition |-> SymLoc("file", "/b.cpp", 25)]
      [] id = 3 -> [ID |-> 3, Scope |-> "C::", Name |-> "f",
                    CanonicalDeclaration |-> SymLoc("file", "/c.h", 30),
                    Definition |-> NoSymbolLocation]
      [] id = 7 -> [ID |-> 7, Scope |-> "D::", Name |-> "f",
                    CanonicalDeclaration |-> SymLoc("file", "/d.h", 70),
                    Definition |-> SymLoc("file", "/d.h", 70)]
      [] OTHER  -> [ID |-> id, Scope |-> "ns::", Name |-> "caller",
                    CanonicalDeclaration |-> SymLoc("file", "/n.cpp", 90),
                    Definition |-> NoSymbolLocation]

\* The greatest Limit a client passes.
MaxLimit == 2

\* Req.Limit left unset.
NoLimit == 0 - 1

\* ReferencesResult::Reference; via and of record where the entry came from:
\* the step that appended it and the index reference or symbol it was built
\* from.
Reference(Loc, containerName, Attributes, via, of) ==
    [Loc |-> Loc, containerName |-> containerName, Attributes |-> Attributes,
     via |-> via, of |-> of]

MainFileLocation(line) == [uri |-> MainFilePath, line |-> line]

FrIdle ==
    [pc |-> "idle", Cursor |-> [kind |-> "badpos", Decls |-> <<>>], Limit |-> 0,
     Index |-> NullIndex, AddContext |-> FALSE,
     IDsToQuery |-> {}, OverriddenMethods |-> {}, Subjects |-> {},
     References |-> <<>>, HasMore |-> FALSE,
     query |-> 0, ReqLimit |-> NoLimit,
     ContainerLookup |-> {}, RefIndicesForContainer |-> {},
     RelDelivered |-> {}, RefsDelivered |-> {}]

\* Index->lookup(ContainerLookup, ...): the container name of every entry
\* whose container the index knows.  RefIndices is a set of
\* <<container, position in References>>.
WithContainerNames(References, ContainerLookup, RefIndices, AddContext) ==
    IF ContainerLookup = {} \/ ~AddContext THEN References
    ELSE [i \in 1..Len(References) |->
            IF \E c \in ContainerLookup \cap IdxSymbolIDs : <<c, i>> \in RefIndices
            THEN LET c == CHOOSE c \in ContainerLookup \cap IdxSymbolIDs :
                               <<c, i>> \in RefIndices
                 IN  [References[i] EXCEPT
                         !.containerName = <<IdxSymbol(c).Scope, IdxSymbol(c).Name>>]
            ELSE References[i]]

\* The entries findReferences appends for the main-file references.
MainFileEntries(MainFileRefs, AddContext) ==
    LET Refs == UniqueByLocation(MainFileRefs)
    IN  [i \in 1..Len(Refs) |->
            Reference(MainFileLocation(Refs[i].SpelledTok),
                      IF AddContext
                      THEN stringifyContainerForMainFileRef(Refs[i].Container)
                      ELSE <<>>,
                      (IF HasRole(Refs[i].Role, 1) THEN {"Declaration"} ELSE {}) \cup
                      (IF HasRole(Refs[i].Role, 2) THEN {"Definition", "Declaration"} ELSE {}),
                      "ast", 0)]

\* The entries for the references of the macro under the cursor.
MacroEntries ==
    [i \in 1..Len(MacroRefs) |->
        Reference(MainFileLocation(MacroRefs[i].line), <<>>,
                  IF MacroRefs[i].IsDefinition THEN {"Declaration", "Definition"} ELSE {},
                  "macro", 0)]

\* The result of maybeFindIncludeReferences on an #include line with
\* references: the references and the #include line itself.
IncludeEntries ==
    << Reference(MainFileLocation(3), <<>>, {}, "include", 0),
       Reference(MainFileLocation(1), <<>>, {}, "include", 0) >>

\* findReferences(AST, Pos, Limit, Index, AddContext) up to the first index
\* query; MainFileRefs is what findRefs returns for the targets.
FindReferencesCall(Cursor, Limit, Index, AddContext, MainFileRefs) ==
    /\ fr.pc = "idle"
    /\ LET Decls == Cursor.Decls
           Ds == Range(Decls)
           TargetsInMainFile == { D \in Ds : getSymbolID(D) # NoSymbolID }
           Methods == { D \in Ds : isVirtualCXXMethod(D) \/ isObjCMethod(D) }
           Called == [FrIdle EXCEPT !.Cursor = Cursor, !.Limit = Limit, !.Index = Index,
                                    !.AddContext = AddContext, !.query = 1]
       IN  /\ TargetsInMainFile = {} => MainFileRefs = <<>>
           /\ fr' =
                CASE Cursor.kind = "badpos" ->
                        [Called EXCEPT !.pc = "done"]
                  [] Cursor.kind = "include" ->
                        [Called EXCEPT !.pc = "done", !.References = IncludeEntries]
                  [] Cursor.kind = "macro" ->
                        [Called EXCEPT !.pc = "query", !.References = MacroEntries,
                                       !.IDsToQuery = {MacroSID}]
                  [] Cursor.kind = "macro_noid" ->
                        [Called EXCEPT !.pc = "query"]
                  [] OTHER ->
                        LET Subjects ==
                                IF Index = NullIndex THEN {}
                                ELSE { getSymbolID(D) : D \in Methods } \ {NoSymbolID}
                        IN  [Called EXCEPT
                               !.pc = IF Index # NullIndex /\ Subjects # {}
                                      THEN "relations" ELSE "query",
                               !.IDsToQuery =
                                   { getSymbolID(D) :
                                       D \in { T \in TargetsInMainFile :
                                                 ~getParentFunctionOrMethod(T) } },
                               !.Subjects = Subjects,
                               !.OverriddenMethods =
                                   IF Index = NullIndex THEN {}
                                   ELSE UNION { getOverriddenMethods(D) : D \in Methods },
                               !.References = MainFileEntries(MainFileRefs, AddContext)]
    /\ UNCHANGED <<tx, ls, rf, en, th, ch, ar, pd, nb, cf>>

\* The callback of Index->relations(OverriddenBy, ...) for one overriding
\* method Object of Subject.
RelationsCallback(Subject, Object) ==
    /\ fr.pc = "relations"
    /\ <<Subject, Object>> \in IdxOverriddenBy
    /\ Subject \in fr.Subjects
    /\ <<Subject, Object>> \notin fr.RelDelivered
    /\ IF fr.Limit # 0 /\ Len(fr.References) >= fr.Limit
       THEN fr' = [fr EXCEPT !.HasMore = TRUE,
                             !.RelDelivered = @ \cup {<<Subject, Object>>}]
       ELSE LET Sym == IdxSymbol(Object)
                LSPLocDecl == toLSPLocation(Sym.CanonicalDeclaration, MainFilePath)
                LSPLocDef == toLSPLocation(Sym.Definition, MainFilePath)
                PushDecl == LSPLocDecl # NoLocation /\ LSPLocDecl # LSPLocDef
                PushDef == LSPLocDef # NoLocation
                WithDecl ==
                    IF PushDecl
                    THEN Append(fr.References,
                                Reference(LSPLocDecl, <<>>, {"Declaration", "Override"},
                                          "override", Object))
                    ELSE fr.References
                WithDef ==
                    IF PushDef
                    THEN Append(WithDecl,
                                Reference(LSPLocDef, <<>>,
                                          {"Declaration", "Definition", "Override"},
                                          "override", Object))
                    ELSE WithDecl
                \* DenseMap::insert keeps the position inserted first.
                First == Len(fr.References) + 1
            IN  fr' = [fr EXCEPT
                         !.References = WithDef,
                         !.RefIndicesForContainer =
                             IF (PushDecl \/ PushDef) /\ ~(\E p \in @ : p[1] = Object)
                             THEN @ \cup {<<Object, First>>} ELSE @,
                         !.ContainerLookup =
                             IF PushDecl \/ PushDef THEN @ \cup {Object} ELSE @,
                         !.RelDelivered = @ \cup {<<Subject, Object>>}]
    /\ UNCHANGED <<tx, ls, rf, en, th, ch, ar, pd, nb, cf>>

\* Index->relations has returned: the container lookup of the override
\* entries, then on to the first refs query.
RelationsDone ==
    /\ fr.pc = "relations"
    /\ \A r \in IdxOverriddenBy : r[1] \in fr.Subjects => r \in fr.RelDelivered
    /\ fr' = [fr EXCEPT
                !.pc = "query",
                !.References = WithContainerNames(fr.References, fr.ContainerLookup,
                                                  fr.RefIndicesForContainer, fr.AddContext),
                !.ContainerLookup = {},
                !.RefIndicesForContainer = {}]
    /\ UNCHANGED <<tx, ls, rf, en, th, ch, ar, pd, nb, cf>>

AllowAttributes(query) == query = 1

\* A variant that keeps main-file occurrences in both queries.
AllowMainFileSymbols_Always(query) == TRUE

\* The arguments of the two QueryIndex calls: the targets without main-file
\* occurrences, then the overridden methods with them.
AllowMainFileSymbols(query) == query = 2

QueryIDs(s) == IF s.query = 1 THEN s.IDsToQuery ELSE s.OverriddenMethods

\* After a QueryIndex call: the second call, or the return.
AfterQuery(s) ==
    IF s.query = 1 THEN [s EXCEPT !.pc = "query", !.query = 2]
    ELSE [s EXCEPT !.pc = "done"]

\* A variant of QueryIndex that queries whatever HasMore is.
QuerySkipped_WhateverHasMore(s) == QueryIDs(s) = {} \/ s.Index = NullIndex

\* The early return of QueryIndex: IDs.empty() || !Index || Results.HasMore.
QuerySkipped(s) == QueryIDs(s) = {} \/ s.Index = NullIndex \/ s.HasMore

\* QueryIndex(IDs, AllowAttributes, AllowMainFileSymbols) up to Index->refs.
QueryIndex ==
    /\ fr.pc = "query"
    /\ IF QuerySkipped(fr)
       THEN fr' = AfterQuery(fr)
       ELSE fr' = [fr EXCEPT
                     !.pc = "refs",
                     !.ReqLimit = IF fr.Limit = 0 THEN NoLimit
                                  ELSE IF fr.Limit < Len(fr.References) THEN 0
                                  ELSE fr.Limit - Len(fr.References),
                     !.ContainerLookup = {},
                     !.RefIndicesForContainer = {}]
    /\ UNCHANGED <<tx, ls, rf, en, th, ch, ar, pd, nb, cf>>

\* The references the running refs request has delivered.
RefsDeliveredNow(s) == { d \in s.RefsDelivered : d[1] = s.query }

\* The references of the index the running refs request has not delivered.
RefsRemaining(s) ==
    { R \in IdxRefs : R.ID \in QueryIDs(s) /\ <<s.query, R.n>> \notin s.RefsDelivered }

\* The callback of Index->refs(Req, ...) for one reference R; the index
\* delivers at most Req.Limit references.
RefsCallback(R) ==
    /\ fr.pc = "refs"
    /\ R \in RefsRemaining(fr)
    /\ fr.ReqLimit = NoLimit \/ Cardinality(RefsDeliveredNow(fr)) < fr.ReqLimit
    /\ LET LSPLoc == toLSPLocation(R.Location, MainFilePath)
           Delivered == fr.RefsDelivered \cup {<<fr.query, R.n>>}
       IN  IF \/ LSPLoc = NoLocation
              \/ ~AllowMainFileSymbols(fr.query) /\ LSPLoc.uri = MainFilePath
           THEN fr' = [fr EXCEPT !.RefsDelivered = Delivered]
           ELSE fr' = [fr EXCEPT
                         !.RefsDelivered = Delivered,
                         !.References =
                             Append(@, Reference(LSPLoc, <<>>,
                                 IF AllowAttributes(fr.query)
                                 THEN (IF "Declaration" \in R.Kind
                                       THEN {"Declaration"} ELSE {}) \cup
                                      (IF "Definition" \in R.Kind
                                       THEN {"Declaration", "Definition"} ELSE {})
                                 ELSE {},
                                 IF fr.query = 1 THEN "refs1" ELSE "refs2", R.n)),
                         !.ContainerLookup =
                             IF fr.AddContext THEN @ \cup {R.Container} ELSE @,
                         !.RefIndicesForContainer =
                             IF fr.AddContext
                             THEN @ \cup {<<R.Container, Len(fr.References) + 1>>}
                             ELSE @]
    /\ UNCHANGED <<tx, ls, rf, en, th, ch, ar, pd, nb, cf>>

\* Index->refs has returned, true when it held back references: HasMore, the
\* container lookup, and on to the next step.
RefsDone ==
    /\ fr.pc = "refs"
    /\ \/ RefsRemaining(fr) = {}
       \/ fr.ReqLimit # NoLimit /\ Cardinality(RefsDeliveredNow(fr)) = fr.ReqLimit
    /\ fr' = AfterQuery(
                [fr EXCEPT
                   !.HasMore = @ \/ RefsRemaining(fr) # {},
                   !.References = WithContainerNames(fr.References, fr.ContainerLookup,
                                                     fr.RefIndicesForContainer,
                                                     fr.AddContext),
                   !.ContainerLookup = {},
                   !.RefIndicesForContainer = {}])
    /\ UNCHANGED <<tx, ls, rf, en, th, ch, ar, pd, nb, cf>>

FindRefsInit ==
    /\ fr = FrIdle
    /\ tx = Off /\ ls = Off /\ rf = Off /\ en = Off /\ th = Off /\ ch = Off
    /\ ar = Off /\ pd = Off /\ nb = Off /\ cf = Off

FindRefsNext ==
    \/ \E Cursor \in Cursors, Limit \in 0..MaxLimit, Index \in IndexPtrs,
          AddContext \in BOOLEAN, MainFileRefs \in MainFileRefChoices :
          FindReferencesCall(Cursor, Limit, Index, AddContext, MainFileRefs)
    \/ \E rel \in IdxOverriddenBy : RelationsCallback(rel[1], rel[2])
    \/ RelationsDone
    \/ QueryIndex
    \/ \E R \in IdxRefs : RefsCallback(R)
    \/ RefsDone

SpecFindRefs == FindRefsInit /\ [][FindRefsNext]_vars

(***************************************************************************)
(* Claims about findReferences.                                            *)
(***************************************************************************)
\* C7, as stated: no reference taken from an index refs query is located in
\* the main file, for every refs query the operation issues.
C7_NoMainFileFromAnyRefsQuery ==
    \A i \in 1..Len(fr.References) :
        fr.References[i].via \in {"refs1", "refs2"} =>
            fr.References[i].Loc.uri # MainFilePath

\* C7, amended: no reference taken from the refs query for the targets (the
\* first QueryIndex call) is located in the main file; the refs query for the
\* overridden methods keeps main-file occurrences.
C7_NoMainFileFromTargetRefsQuery ==
    \A i \in 1..Len(fr.References) :
        fr.References[i].via = "refs1" =>
            fr.References[i].Loc.uri # MainFilePath

\* The refs query for A::f delivered an occurrence in the main file and one
\* in another file; the operation returned references from that query.
C7_Witness ==
    /\ fr.pc = "done"
    /\ {<<1, 1>>, <<1, 2>>} \subseteq fr.RefsDelivered
    /\ \E i \in 1..Len(fr.References) : fr.References[i].via = "refs1"

\* The methods D overrides, directly or through other methods.
RECURSIVE C8_Closure(_)
C8_Closure(S) ==
    LET N == S \cup UNION { overridden_methods(D) : D \in S }
    IN  IF N = S THEN S ELSE C8_Closure(N)

C8_Bases(D) == C8_Closure(overridden_methods(D))

\* A call on one virtual method with no limit and an index has returned.
C8_Returned(D) ==
    /\ fr.pc = "done" /\ fr.Limit = 0 /\ fr.Index = SomeIndex
    /\ fr.Cursor.kind = "decls" /\ D \in Range(fr.Cursor.Decls)
    /\ isVirtualCXXMethod(D)

\* C8, as stated: with no limit, every index reference to a method the target
\* transitively overrides is returned, as a plain reference.
C8_EveryBaseRefReported ==
    \A D \in RefDecls : C8_Returned(D) =>
        \A R \in IdxRefs : R.ID \in C8_Bases(D) =>
            \E i \in 1..Len(fr.References) :
                /\ fr.References[i].via = "refs2" /\ fr.References[i].of = R.n
                /\ fr.References[i].Attributes = {}

\* C8, amended: with no limit, every index reference to a method the target
\* transitively overrides whose location converts to an LSP location is
\* returned at that location, as a plain reference (no Declaration, no
\* Definition attribute).
C8_EveryConvertibleBaseRefReported ==
    \A D \in RefDecls : C8_Returned(D) =>
        \A R \in IdxRefs :
            (R.ID \in C8_Bases(D) /\ toLSPLocation(R.Location, MainFilePath) # NoLocation) =>
                \E i \in 1..Len(fr.References) :
                    /\ fr.References[i].via = "refs2" /\ fr.References[i].of = R.n
                    /\ fr.References[i].Loc = toLSPLocation(R.Location, MainFilePath)
                    /\ fr.References[i].Attributes = {}

\* findReferences on C::f returned the index's definition of A::f, which C::f
\* overrides through B::f, as a plain reference.
C8_Witness ==
    /\ C8_Returned(3)
    /\ \E i \in 1..Len(fr.References) :
          /\ fr.References[i].of = 1 /\ fr.References[i].via = "refs2"
          /\ fr.References[i].Loc = [uri |-> "/a.cpp", line |-> 11]
          /\ fr.References[i].Attributes = {}

\* The methods that override ID in the index, directly or through other
\* methods.
RECURSIVE C9_Closure(_)
C9_Closure(S) ==
    LET N == S \cup { r[2] : r \in { q \in IdxOverriddenBy : q[1] \in S } }
    IN  IF N = S THEN S ELSE C9_Closure(N)

C9_Overriders(ID) == C9_Closure({ r[2] : r \in { q \in IdxOverriddenBy : q[1] = ID } })

C9_Reported(Loc, Attribute) ==
    Loc # NoLocation =>
        \E i \in 1..Len(fr.References) :
            /\ fr.References[i].Loc = Loc
            /\ {Attribute, "Override"} \subseteq fr.References[i].Attributes

\* C9: with no limit, findReferences on a virtual method reports the
\* declaration and the definition location of every method that overrides it
\* transitively, each with the Override attribute.
C9_TransitiveOverridersReported ==
    \A D \in RefDecls : C8_Returned(D) =>
        \A O \in C9_Overriders(getSymbolID(D)) :
            /\ C9_Reported(toLSPLocation(IdxSymbol(O).CanonicalDeclaration, MainFilePath),
                           "Declaration")
            /\ C9_Reported(toLSPLocation(IdxSymbol(O).Definition, MainFilePath),
                           "Definition")


\* The entries of the result that came from the traversal of the main file.
C29_MainFileRefs == { i \in 1..Len(fr.References) : fr.References[i].via = "ast" }

\* C29: when Limit > 0 and the traversal of the main file yields fewer than
\* Limit references, findReferences returns at most Limit references,
\* counting the entries for overriding methods and those of both refs
\* queries (the index delivers at most Req.Limit references per request).
C29_AtMostLimit ==
    (/\ fr.pc = "done" /\ fr.Cursor.kind = "decls"
     /\ fr.Limit > 0 /\ Cardinality(C29_MainFileRefs) < fr.Limit) =>
        Len(fr.References) <= fr.Limit

\* C30: once HasMore is set it stays set up to the return, no refs query is
\* issued after it, and no reference is appended after it.
C30_HasMoreStaysAndGates ==
    [][fr.HasMore =>
          /\ fr'.HasMore
          /\ fr'.pc # "refs"
          /\ Len(fr'.References) = Len(fr.References)]_vars

\* findReferences has returned with HasMore set by the override-collection
\* step; there were symbols to query and an index, and no refs request was
\* answered.
C30_Witness ==
    /\ fr.pc = "done" /\ fr.HasMore
    /\ fr.RelDelivered # {}
    /\ fr.IDsToQuery # {} /\ fr.OverriddenMethods # {} /\ fr.Index # NullIndex
    /\ fr.RefsDelivered = {}
    /\ fr.ReqLimit = NoLimit

(***************************************************************************)
(* enhanceLocatedSymbolsFromIndex: the definitions and preferred           *)
(* declarations the index adds to results derived from the AST.            *)
(*                                                                         *)
(* The index holds symbols 1..4: 1 with a definition, 2 without one, 3     *)
(* declared and defined in a .proto file, 4 with locations whose URI does  *)
(* not resolve.                                                            *)
(***************************************************************************)
EnSymbolIDs == 1..4

EnSymbol(id) ==
    CASE id = 1 -> [ID |-> 1, CanonicalDeclaration |-> SymLoc("file", "/x.h", 1),
                    Definition |-> SymLoc("file", "/x.cpp", 10)]
      [] id = 2 -> [ID |-> 2, CanonicalDeclaration |-> SymLoc("file", "/y.h", 20),
                    Definition |-> NoSymbolLocation]
      [] id = 3 -> [ID |-> 3, CanonicalDeclaration |-> SymLoc("file", "/z.proto", 30),
                    Definition |-> SymLoc("file", "/z.proto", 31)]
      [] OTHER  -> [ID |-> id, CanonicalDeclaration |-> SymLoc("unknown", "/w.h", 4),
                    Definition |-> SymLoc("unknown", "/w.cpp", 40)]

\* The results the AST yields: without and with a definition, known to the
\* index or not (5), without SymbolID (0), and a second result for symbol 1.
EnLocated ==
    { Located(<<"x", "">>, [uri |-> "/x.h", line |-> 1], NoLocation, 1),
      Located(<<"x", "2">>, [uri |-> "/x2.h", line |-> 11], NoLocation, 1),
      Located(<<"y", "">>, [uri |-> "/y.cpp", line |-> 2], [uri |-> "/y.cpp", line |-> 2], 2),
      Located(<<"z", "">>, [uri |-> "/z.pb.h", line |-> 3], [uri |-> "/z.pb.h", line |-> 3], 3),
      Located(<<"w", "">>, [uri |-> "/w.h", line |-> 4], NoLocation, 4),
      Located(<<"v", "">>, [uri |-> "/v.h", line |-> 5], NoLocation, 5),
      Located(<<"u", "">>, [uri |-> "/u.h", line |-> 6], NoLocation, NoSymbolID) }

\* The most results one call is given.
MaxResults == 2

EnResults == UNION { [1..n -> EnLocated] : n \in 0..MaxResults }

\* Merge.cpp, prefer(L, R): L is used over R when R is null or only L is in
\* a file that generated code comes from.
HasCodeGenSuffix(Loc) == Loc.FileURI.body \in {"/z.proto"}

prefer(L, R) ==
    IF ~IsValidSymLoc(L) THEN FALSE
    ELSE IF ~IsValidSymLoc(R) THEN TRUE
    ELSE HasCodeGenSuffix(L) /\ ~HasCodeGenSuffix(R)

\* getPreferredLocation: mergeSymbol of two mock symbols that differ in
\* CanonicalDeclaration only keeps the AST's unless the index's is preferred.
getPreferredLocation(ASTLoc, IdxLoc) ==
    IF prefer(IdxLoc, toIndexLocation(ASTLoc)) THEN IdxLoc ELSE toIndexLocation(ASTLoc)

\* ResultIndex after the loop: try_emplace keeps the first position of each
\* SymbolID.
ResultIndexOf(Result) ==
    [ID \in { Result[i].ID : i \in 1..Len(Result) } \ {NoSymbolID} |->
        CHOOSE i \in 1..Len(Result) :
            /\ Result[i].ID = ID
            /\ \A j \in 1..(i - 1) : Result[j].ID # ID]

\* A variant that requests the SymbolID of the first result only.
QueryRequestIDs_First(Result) ==
    IF Result = <<>> THEN {} ELSE {Result[1].ID} \ {NoSymbolID}

\* QueryRequest.IDs after the loop: the SymbolID of every result that has one.
QueryRequestIDs(Result) == DOMAIN ResultIndexOf(Result)

EnIdle ==
    [pc |-> "idle", Index |-> NullIndex, Result |-> <<>>, Original |-> <<>>,
     IDs |-> {}, Delivered |-> {}, requests |-> 0]

\* enhanceLocatedSymbolsFromIndex(Result, Index, MainFilePath) up to
\* Index->lookup; Original keeps the results as the AST gave them.
EnhanceCall(Result, Index) ==
    /\ en.pc = "idle"
    /\ LET IDs == QueryRequestIDs(Result)
           Called == [EnIdle EXCEPT !.Index = Index, !.Result = Result,
                                    !.Original = Result, !.IDs = IDs]
       IN  en' = IF Index = NullIndex \/ IDs = {}
                 THEN [Called EXCEPT !.pc = "done"]
                 ELSE [Called EXCEPT !.pc = "lookup", !.requests = 1]
    /\ UNCHANGED <<tx, ls, rf, fr, th, ch, ar, pd, nb, cf>>

\* The callback of Index->lookup(QueryRequest, ...) for one symbol.
LookupCallback(Sym) ==
    /\ en.pc = "lookup"
    /\ Sym.ID \in en.IDs \ en.Delivered
    /\ LET I == ResultIndexOf(en.Result)[Sym.ID]
           R == en.Result[I]
           IdxDecl == toLSPLocation(Sym.CanonicalDeclaration, MainFilePath)
           MergedDef == toLSPLocation(getPreferredLocation(R.Definition, Sym.Definition),
                                      MainFilePath)
           MergedDecl == toLSPLocation(getPreferredLocation(R.PreferredDeclaration,
                                                            Sym.CanonicalDeclaration),
                                       MainFilePath)
           Enhanced ==
               IF R.Definition # NoLocation
               THEN [R EXCEPT
                       !.PreferredDeclaration = IF IdxDecl # NoLocation THEN IdxDecl ELSE @,
                       !.Definition = IF MergedDef # NoLocation THEN MergedDef ELSE @]
               ELSE [R EXCEPT
                       !.Definition = toLSPLocation(Sym.Definition, MainFilePath),
                       !.PreferredDeclaration =
                           IF MergedDecl # NoLocation THEN MergedDecl ELSE @]
       IN  en' = [en EXCEPT !.Result[I] = Enhanced,
                            !.Delivered = @ \cup {Sym.ID}]
    /\ UNCHANGED <<tx, ls, rf, fr, th, ch, ar, pd, nb, cf>>

\* Index->lookup has returned: every requested symbol the index holds was
\* delivered.
LookupDone ==
    /\ en.pc = "lookup"
    /\ en.IDs \cap EnSymbolIDs \subseteq en.Delivered
    /\ en' = [en EXCEPT !.pc = "done"]
    /\ UNCHANGED <<tx, ls, rf, fr, th, ch, ar, pd, nb, cf>>

EnhanceInit ==
    /\ en = EnIdle
    /\ tx = Off /\ ls = Off /\ rf = Off /\ fr = Off /\ th = Off /\ ch = Off
    /\ ar = Off /\ pd = Off /\ nb = Off /\ cf = Off

EnhanceNext ==
    \/ \E Result \in EnResults, Index \in IndexPtrs : EnhanceCall(Result, Index)
    \/ \E id \in EnSymbolIDs : LookupCallback(EnSymbol(id))
    \/ LookupDone

SpecEnhance == EnhanceInit /\ [][EnhanceNext]_vars

(***************************************************************************)
(* Claims about the merge of AST and index locations.                      *)
(***************************************************************************)
\* C10: after enhanceLocatedSymbolsFromIndex every result has a Definition if
\* it had one from the AST or if the index's symbol with the same SymbolID has
\* a usable (convertible) definition location.
C10_DefinitionNeverLost ==
    en.pc = "done" =>
        \A i \in 1..Len(en.Result) :
            /\ en.Original[i].Definition # NoLocation =>
                   en.Result[i].Definition # NoLocation
            /\ ( /\ en.Index = SomeIndex
                 /\ en.Original[i].ID \in EnSymbolIDs
                 /\ toLSPLocation(EnSymbol(en.Original[i].ID).Definition, MainFilePath)
                        # NoLocation ) =>
                   en.Result[i].Definition # NoLocation

\* C11: one call issues at most one lookup request, which holds the SymbolID
\* of every result that has one, and issues none when no result has a
\* SymbolID.
C11_OneLookupForAllResults ==
    LET IDs == { en.Original[i].ID : i \in 1..Len(en.Original) } \ {NoSymbolID}
    IN  /\ en.requests <= 1
        /\ IDs = {} => en.requests = 0
        /\ en.requests = 1 => en.IDs = IDs

\* A call with two results of different SymbolIDs has returned after one
\* lookup request for both.
C11_Witness ==
    /\ en.pc = "done" /\ en.requests = 1
    /\ Len(en.Original) = 2
    /\ en.Original[1].ID # NoSymbolID /\ en.Original[2].ID # NoSymbolID
    /\ en.Original[1].ID # en.Original[2].ID
    /\ en.IDs = {en.Original[1].ID, en.Original[2].ID}

(***************************************************************************)
(* getTypeHierarchy: the parents of a class from the AST (fillSuperTypes   *)
(* over typeParents), its children from the index (fillSubTypes).          *)
(*                                                                         *)
(* The translation unit declares D (1) with bases B1 (5) and B2 (7), both  *)
(* derived from Base (8); the template patterns A (2, A<T> : A<A<T>>),     *)
(* S (3, S<N> : S<N + 1>) with its invalid instantiation S<0> (9), and     *)
(* P (10, P<T> : Q<T>) and Q (11, Q<T> : P<T>); a class without SymbolID   *)
(* (6) whose bases are a declaration without location (13), a class that   *)
(* is only forward-declared (12) and a base that is no class.              *)
(* fillSuperTypes runs one step at a time on an explicit call stack.       *)
(***************************************************************************)
AstBase(kind, decl) == [kind |-> kind, decl |-> decl]

AstClass(isCTSD, isInvalidDecl, templatedDecl, hasDefinition, describedTemplate, bases) ==
    [isCTSD |-> isCTSD, isInvalidDecl |-> isInvalidDecl, templatedDecl |-> templatedDecl,
     hasDefinition |-> hasDefinition, describedTemplate |-> describedTemplate,
     bases |-> bases]

AstClassIDs == {1, 2, 3, 5, 6, 7, 8, 9, 10, 11, 12, 13}

AstClasses(id) ==
    CASE id = 1  -> AstClass(FALSE, FALSE, 0, TRUE, FALSE,
                             <<AstBase("record", 5), AstBase("record", 7)>>)
      [] id = 2  -> AstClass(FALSE, FALSE, 0, TRUE, TRUE, <<AstBase("dependent", 2)>>)
      [] id = 3  -> AstClass(FALSE, FALSE, 0, TRUE, TRUE, <<AstBase("dependent", 3)>>)
      [] id = 5  -> AstClass(FALSE, FALSE, 0, TRUE, FALSE, <<AstBase("record", 8)>>)
      [] id = 6  -> AstClass(FALSE, FALSE, 0, TRUE, FALSE,
                             <<AstBase("record", 13), AstBase("record", 12),
                               AstBase("other", 0)>>)
      [] id = 7  -> AstClass(FALSE, FALSE, 0, TRUE, FALSE, <<AstBase("record", 8)>>)
      [] id = 9  -> AstClass(TRUE, TRUE, 3, FALSE, FALSE, <<>>)
      [] id = 10 -> AstClass(FALSE, FALSE, 0, TRUE, TRUE, <<AstBase("dependent", 11)>>)
      [] id = 11 -> AstClass(FALSE, FALSE, 0, TRUE, TRUE, <<AstBase("dependent", 10)>>)
      [] id = 12 -> AstClass(FALSE, FALSE, 0, FALSE, FALSE, <<>>)
      [] OTHER   -> AstClass(FALSE, FALSE, 0, TRUE, FALSE, <<>>)

\* typeParents(CXXRD): the declarations of the bases, the class template for a
\* dependent base, the bases of the template pattern for an invalid
\* instantiation.
typeParents(CXXRD) ==
    LET C == AstClasses(CXXRD)
        From == IF C.isCTSD /\ C.isInvalidDecl THEN AstClasses(C.templatedDecl) ELSE C
        F[i \in 0..Len(From.bases)] ==
            IF i = 0 THEN <<>>
            ELSE IF From.bases[i].kind \in {"record", "dependent"}
                 THEN Append(F[i - 1], From.bases[i].decl)
                 ELSE F[i - 1]
    IN  IF ~From.hasDefinition THEN <<>> ELSE F[Len(From.bases)]

\* CTSD->getTemplateInstantiationPattern()
getTemplateInstantiationPattern(CXXRD) == AstClasses(CXXRD).templatedDecl

\* declToTypeHierarchyItem: std::nullopt for a declaration without a file
\* location.
declToTypeHierarchyItem(ND, TUPath) ==
    IF ND = 13 THEN NoItem
    ELSE [name |-> <<"C", ND>>, uri |-> TUPath, line |-> ND,
          data |-> [symbolID |-> getSymbolID(ND), parents |-> None],
          parents |-> None, children |-> None]

\* The deepest nesting of fillSuperTypes calls that is followed.
MaxDepth == 6

\* A call of fillSuperTypes: its CXXRD and Item, where it is (at the
\* recursion guard, in the loop, returning early) and the parent the loop is at.
Frame(CXXRD, Item) == [CXXRD |-> CXXRD, Item |-> Item, at |-> "guard", i |-> 1]

\* A variant of the recursion guard that never finds a pattern repeated.
RPSetInsertFails_Never(RPSet, Pattern) == FALSE

\* !RPSet.insert(Pattern).second
RPSetInsertFails(RPSet, Pattern) == Pattern \in RPSet

\* A variant of the insertion that does not record the pattern.
RPSetInserted_Forgets(RPSet, Pattern) == RPSet

\* RPSet after RPSet.insert(Pattern)
RPSetInserted(RPSet, Pattern) == RPSet \cup {Pattern}

GthIdle ==
    [pc |-> "idle", Root |-> 0, CXXRD |-> 0, ResolveLevels |-> 0, Direction |-> "Parents",
     Index |-> NullIndex, stack |-> <<>>, RPSet |-> {}, Results |-> <<>>]

WantChildren(Direction) == Direction \in {"Children", "Both"}

\* getTypeHierarchy(AST, Pos, ResolveLevels, Direction, Index, TUPath) for the
\* record Root at Pos (0: none), up to the call of fillSuperTypes.
GetTypeHierarchyCall(Root, ResolveLevels, Direction, Index) ==
    /\ th.pc = "idle"
    /\ LET CXXRD == IF Root # 0 /\ WantChildren(Direction) /\ AstClasses(Root).isCTSD
                    THEN getTemplateInstantiationPattern(Root) ELSE Root
           Result == IF Root = 0 THEN NoItem
                     ELSE declToTypeHierarchyItem(CXXRD, MainFilePath)
           Called == [GthIdle EXCEPT !.Root = Root, !.CXXRD = CXXRD,
                                     !.ResolveLevels = ResolveLevels,
                                     !.Direction = Direction, !.Index = Index]
       IN  th' = IF Result = NoItem
                 THEN [Called EXCEPT !.pc = "done"]
                 ELSE [Called EXCEPT !.pc = "parents",
                                     !.stack = <<Frame(CXXRD, Result)>>]
    /\ UNCHANGED <<tx, ls, rf, fr, en, ch, ar, pd, nb, cf>>

\* fillSuperTypes, from its entry to the loop: the parents lists are created;
\* a pattern that is already in RPSet returns at once.
FillSuperTypesEnter ==
    /\ th.pc = "parents"
    /\ LET n == Len(th.stack)
           f == th.stack[n]
           Pattern == AstClasses(f.CXXRD).describedTemplate
           Item == [f.Item EXCEPT !.parents = Some(<<>>), !.data.parents = Some(<<>>)]
       IN  /\ f.at = "guard"
           /\ IF Pattern /\ RPSetInsertFails(th.RPSet, f.CXXRD)
              THEN th' = [th EXCEPT !.stack[n] = [f EXCEPT !.Item = Item, !.at = "return"]]
              ELSE th' = [th EXCEPT !.stack[n] = [f EXCEPT !.Item = Item, !.at = "loop"],
                                    !.RPSet = IF Pattern THEN RPSetInserted(@, f.CXXRD) ELSE @]
    /\ UNCHANGED <<tx, ls, rf, fr, en, ch, ar, pd, nb, cf>>

\* One iteration of the loop over typeParents(&CXXRD), up to the recursive
\* call for a parent that converts to an item.
FillSuperTypesParent ==
    /\ th.pc = "parents"
    /\ LET n == Len(th.stack)
           f == th.stack[n]
           Parents == typeParents(f.CXXRD)
       IN  /\ f.at = "loop"
           /\ f.i <= Len(Parents)
           /\ LET ParentSym == declToTypeHierarchyItem(Parents[f.i], MainFilePath)
              IN  IF ParentSym = NoItem
                  THEN th' = [th EXCEPT !.stack[n].i = f.i + 1]
                  ELSE /\ n < MaxDepth
                       /\ th' = [th EXCEPT !.stack = Append(@, Frame(Parents[f.i], ParentSym))]
    /\ UNCHANGED <<tx, ls, rf, fr, en, ch, ar, pd, nb, cf>>

\* fillSuperTypes returns, early or after the loop (then the pattern leaves
\* RPSet): the caller appends the item to its parents, and the outermost call
\* hands the item back to getTypeHierarchy.
FillSuperTypesReturn ==
    /\ th.pc = "parents"
    /\ LET n == Len(th.stack)
           f == th.stack[n]
           AfterLoop == f.at = "loop" /\ f.i > Len(typeParents(f.CXXRD))
           RPSet == IF AfterLoop /\ AstClasses(f.CXXRD).describedTemplate
                    THEN th.RPSet \ {f.CXXRD} ELSE th.RPSet
       IN  /\ f.at = "return" \/ AfterLoop
           /\ IF n = 1
              THEN th' = [th EXCEPT !.pc = "children", !.stack = <<>>, !.RPSet = RPSet,
                                    !.Results = <<f.Item>>]
              ELSE LET c == th.stack[n - 1]
                       Item == [c.Item EXCEPT
                                  !.data.parents = Some(Append(@.v, f.Item.data)),
                                  !.parents = Some(Append(@.v, f.Item))]
                   IN  th' = [th EXCEPT
                                !.stack = Append(SubSeq(th.stack, 1, n - 2),
                                                 [c EXCEPT !.Item = Item, !.i = c.i + 1]),
                                !.RPSet = RPSet]
    /\ UNCHANGED <<tx, ls, rf, fr, en, ch, ar, pd, nb, cf>>

\* getTypeHierarchy after fillSuperTypes: the children from the index when
\* they are wanted, and the item joins Results.
GetTypeHierarchyChildren ==
    /\ th.pc = "children"
    /\ LET Result == th.Results[1]
           ID == getSymbolID(th.CXXRD)
           Children == IF th.Index # NullIndex /\ ID # NoSymbolID
                       THEN fillSubTypes(ID, th.ResolveLevels, MainFilePath)
                       ELSE <<>>
       IN  th' = [th EXCEPT
                    !.pc = "done",
                    !.Results = IF WantChildren(th.Direction) /\ th.ResolveLevels > 0
                                THEN <<[Result EXCEPT !.children = Some(Children)]>>
                                ELSE <<Result>>]
    /\ UNCHANGED <<tx, ls, rf, fr, en, ch, ar, pd, nb, cf>>

\* The records findRecordTypeAt may find at Pos; 0 when there is none.
RecordsAt == {0, 1, 2, 3, 6, 9, 10, 12}

GthInit ==
    /\ th = GthIdle
    /\ tx = Off /\ ls = Off /\ rf = Off /\ fr = Off /\ en = Off /\ ch = Off
    /\ ar = Off /\ pd = Off /\ nb = Off /\ cf = Off

GthNext ==
    \/ \E Root \in RecordsAt, ResolveLevels \in 0..MaxResolveLevels,
          Direction \in TypeHierarchyDirections, Index \in IndexPtrs :
          GetTypeHierarchyCall(Root, ResolveLevels, Direction, Index)
    \/ FillSuperTypesEnter
    \/ FillSuperTypesParent
    \/ FillSuperTypesReturn
    \/ GetTypeHierarchyChildren

SpecTypeHierarchy == GthInit /\ [][GthNext]_vars

\* The request runs on: a step that can be taken is taken.
FairTypeHierarchy == SpecTypeHierarchy /\ WF_vars(GthNext)

(***************************************************************************)
(* Claims about the type hierarchy.                                        *)
(***************************************************************************)
\* The classes reached from the classes S by typeParents without leaving the
\* classes that are no template pattern.
RECURSIVE C12_PlainReach(_)
C12_PlainReach(S) ==
    LET Plain(c) == ~AstClasses(c).describedTemplate
        N == S \cup { p \in UNION { Range(typeParents(c)) : c \in S } : Plain(p) }
    IN  IF N = S THEN S ELSE C12_PlainReach(N)

\* Every inheritance cycle passes through a class template pattern.
C12_CyclesPassThroughPatterns ==
    \A c \in AstClassIDs :
        ~AstClasses(c).describedTemplate =>
            c \notin C12_PlainReach({ p \in Range(typeParents(c)) :
                                        ~AstClasses(p).describedTemplate })

\* C12: on a class graph whose inheritance cycles all pass through a class
\* template pattern, fillSuperTypes terminates: every call of it returns to
\* getTypeHierarchy.
C12_FillSuperTypesTerminates ==
    (th.pc = "parents" /\ C12_CyclesPassThroughPatterns) ~> (th.pc = "children")

\* fillSuperTypes has returned for P, whose parent Q has P as its parent.
C12_Witness ==
    /\ th.pc = "children" /\ th.Root = 10
    /\ th.Results[1].parents.v[1].line = 11
    /\ th.Results[1].parents.v[1].parents.v[1].line = 10

\* The declaration an item of the parents tree was made from.
C13_Decl(Item) == Item.line

\* No pattern in Seen, the nodes above Item, is at Item or below it.
RECURSIVE C13_NoPatternTwice(_, _)
C13_NoPatternTwice(Item, Seen) ==
    /\ ~(AstClasses(C13_Decl(Item)).describedTemplate /\ C13_Decl(Item) \in Seen)
    /\ \A k \in 1..Len(Item.parents.v) :
          C13_NoPatternTwice(Item.parents.v[k], Seen \cup {C13_Decl(Item)})

\* C13, as stated: on any path from the root item through nested parents no
\* template pattern appears as a node more than once.
C13_PatternNotDuplicated ==
    th.pc \in {"children", "done"} =>
        \A r \in 1..Len(th.Results) : C13_NoPatternTwice(th.Results[r], {})

\* A pattern in Seen, the nodes above Item, is at Item or below it only as a
\* node with an empty parents list.
RECURSIVE C13_RepeatIsLeaf(_, _)
C13_RepeatIsLeaf(Item, Seen) ==
    IF AstClasses(C13_Decl(Item)).describedTemplate /\ C13_Decl(Item) \in Seen
    THEN Item.parents = Some(<<>>)
    ELSE \A k \in 1..Len(Item.parents.v) :
            C13_RepeatIsLeaf(Item.parents.v[k], Seen \cup {C13_Decl(Item)})

\* C13, amended: on any path from the root item through nested parents a
\* template pattern appears at most twice, and its second appearance is a node
\* with an empty parents list that ends the path; while fillSuperTypes runs,
\* only its innermost call can be for a pattern an outer call is for, and that
\* call returns without visiting parents.
C13_PatternRepeatedOnceAsLeaf ==
    /\ th.pc \in {"children", "done"} =>
          \A r \in 1..Len(th.Results) : C13_RepeatIsLeaf(th.Results[r], {})
    /\ th.pc = "parents" =>
          \A i, j \in 1..Len(th.stack) :
              ( /\ i < j
                /\ th.stack[i].CXXRD = th.stack[j].CXXRD
                /\ AstClasses(th.stack[j].CXXRD).describedTemplate ) =>
                  (j = Len(th.stack) /\ th.stack[j].at \in {"guard", "return"})

\* The hierarchy of A, whose base is the dependent specialization A<A<T>>, is
\* built: A has the parent A, which has no parents.
C13_Witness ==
    /\ th.pc = "done" /\ th.Root = 2
    /\ th.Results[1].line = 2
    /\ Len(th.Results[1].parents.v) = 1
    /\ th.Results[1].parents.v[1].line = 2
    /\ th.Results[1].parents.v[1].parents = Some(<<>>)

\* Item, at depth `depth` of a children tree filled down to depth n, has a
\* children list exactly when depth < n, and so have the items below it.
RECURSIVE C14_FilledToDepth(_, _, _)
C14_FilledToDepth(Item, depth, n) ==
    IF depth < n
    THEN /\ Item.children.has
         /\ \A k \in 1..Len(Item.children.v) :
               C14_FilledToDepth(Item.children.v[k], depth + 1, n)
    ELSE ~Item.children.has

\* The children of Item are the index's base-of objects of its symbol that
\* convert to an item.
C14_ChildrenFromIndex(Item) ==
    { Item.children.v[k].data.symbolID : k \in 1..Len(Item.children.v) } =
    { r[2] : r \in { q \in IdxBaseOf :
          /\ q[1] = Item.data.symbolID
          /\ symbolToTypeHierarchyItem(IdxTypeSymbol(q[2]), MainFilePath) # NoItem } }

\* C14: getTypeHierarchy with children requested and ResolveLevels = n >= 1
\* returns, and fills the children from the index's base-of relation down to
\* depth n and no deeper: every item at depth < n has a children list, no item
\* at depth n has one.
C14_ChildrenToDepth ==
    ( /\ th.pc = "done" /\ th.Results # <<>>
      /\ WantChildren(th.Direction) /\ th.ResolveLevels >= 1 ) =>
        /\ C14_FilledToDepth(th.Results[1], 0, th.ResolveLevels)
        /\ (th.Index = SomeIndex /\ getSymbolID(th.CXXRD) # NoSymbolID) =>
               C14_ChildrenFromIndex(th.Results[1])

\* The children of D were resolved two levels deep in an index whose base-of
\* relation is cyclic: child 2 with its child 3, which has no children list.
C14_Witness ==
    /\ th.pc = "done" /\ th.Root = 1 /\ th.ResolveLevels = 2
    /\ th.Index = SomeIndex /\ th.Direction = "Children"
    /\ Len(th.Results[1].children.v) = 1
    /\ th.Results[1].children.v[1].data.symbolID = 2
    /\ th.Results[1].children.v[1].children.v[1].data.symbolID = 3
    /\ ~th.Results[1].children.v[1].children.v[1].children.has

(***************************************************************************)
(* Call hierarchy: incomingCalls and outgoingCalls, both answered from the *)
(* index alone.                                                            *)
(*                                                                         *)
(* The item is the function f (symbol 1) in /f.cpp.  The index holds the   *)
(* functions b (2, in /b.cpp), a (3, in /a.cpp), a (6, in /c.cpp) and a    *)
(* function whose location does not resolve (4); symbol 5 is unknown to    *)
(* it.  They are the callers of f for incomingCalls and its callees for    *)
(* outgoingCalls.                                                          *)
(***************************************************************************)
\* SymbolID::str and SymbolID::fromStr; NoSymbolID for a string that is no
\* SymbolID.
SymbolIDStrings == <<"1", "2", "3", "4", "5", "6">>

SymbolIDStr(ID) == SymbolIDStrings[ID]

SymbolIDFromStr(Str) ==
    IF \E ID \in 1..Len(SymbolIDStrings) : SymbolIDStrings[ID] = Str
    THEN CHOOSE ID \in 1..Len(SymbolIDStrings) : SymbolIDStrings[ID] = Str
    ELSE NoSymbolID

\* The order of names under std::string's operator<.
NameRank(name) == CHOOSE k \in 1..3 : <<"a", "b", "f">>[k] = name

ChSymbolIDs == {2, 3, 4, 6}

ChSymbol(id) ==
    CASE id = 2 -> [ID |-> 2, Name |-> "b", Definition |-> SymLoc("file", "/b.cpp", 2),
                    CanonicalDeclaration |-> SymLoc("file", "/b.h", 2)]
      [] id = 3 -> [ID |-> 3, Name |-> "a", Definition |-> NoSymbolLocation,
                    CanonicalDeclaration |-> SymLoc("file", "/a.cpp", 3)]
      [] id = 6 -> [ID |-> 6, Name |-> "a", Definition |-> SymLoc("file", "/c.cpp", 6),
                    CanonicalDeclaration |-> SymLoc("file", "/c.cpp", 6)]
      [] OTHER  -> [ID |-> id, Name |-> "b", Definition |-> NoSymbolLocation,
                    CanonicalDeclaration |-> SymLoc("unknown", "/d.cpp", 4)]

\* symbolToCallHierarchyItem: std::nullopt when the location does not convert.
symbolToCallHierarchyItem(S, TUPath) ==
    LET Loc == symbolToLocation(S, TUPath)
    IN  IF Loc = NoLocation THEN NoItem
        ELSE [name |-> S.Name, uri |-> Loc.uri, line |-> Loc.line,
              data |-> SymbolIDStr(S.ID)]

\* A call site the index reports: its location and the other end of the call
\* (R.Container of a Ref, R.Symbol of a contained ref).
ChRef(n, Location, Peer) == [n |-> n, Location |-> Location, Peer |-> Peer]

\* Index->refs for f: the references to f with their containers.
ChRefsIn ==
    { ChRef(1, SymLoc("file", "/b.cpp", 10), 2),
      ChRef(2, SymLoc("file", "/b.cpp", 11), 2),
      ChRef(3, SymLoc("file", "/b.inc", 12), 2),
      ChRef(4, SymLoc("file", "/a.cpp", 20), 3),
      ChRef(5, SymLoc("unknown", "/a.cpp", 21), 3),
      ChRef(6, SymLoc("file", "/d.cpp", 30), 4),
      ChRef(7, SymLoc("file", "/e.cpp", 40), 5),
      ChRef(8, SymLoc("file", "/c.cpp", 50), 6) }

\* Index->containedRefs for f: the references inside f with their targets.
ChRefsOut ==
    { ChRef(1, SymLoc("file", "/f.cpp", 10), 2),
      ChRef(2, SymLoc("file", "/f.cpp", 11), 2),
      ChRef(3, SymLoc("file", "/b.cpp", 12), 2),
      ChRef(4, SymLoc("file", "/f.cpp", 20), 3),
      ChRef(5, SymLoc("unknown", "/f.cpp", 21), 3),
      ChRef(6, SymLoc("file", "/f.cpp", 30), 4),
      ChRef(7, SymLoc("file", "/f.cpp", 40), 5),
      ChRef(8, SymLoc("file", "/f.cpp", 50), 6) }

ChRefsOf(op) == IF op = "incomingCalls" THEN ChRefsIn ELSE ChRefsOut

\* The items a client passes: f, an item without data, an item whose data is
\* no SymbolID.
CallHierarchyItems ==
    { [name |-> "f", uri |-> "/f.cpp", line |-> 1, data |-> d] : d \in {"1", "", "zz"} }

\* A variant that leaves the entries in the order of the lookup.
SortedCalls_Unsorted(Results) == { Results }

\* llvm::sort by the name of the caller or callee.
SortedCalls(Results) ==
    SortOutcomes(Results, [e \in Range(Results) |-> NameRank(e.peer.name)])

ChIdle ==
    [pc |-> "idle", op |-> "none", Index |-> NullIndex,
     Item |-> [name |-> "f", uri |-> "/f.cpp", line |-> 1, data |-> ""],
     Calls |-> [id \in 1..6 |-> <<>>], LookupIDs |-> {},
     RefsDelivered |-> {}, SymbolsDelivered |-> {}, Results |-> <<>>]

\* incomingCalls(Item, Index) or outgoingCalls(Item, Index) up to the refs
\* request.
CallsCall(op, Item, Index) ==
    /\ ch.pc = "idle"
    /\ LET Called == [ChIdle EXCEPT !.op = op, !.Item = Item, !.Index = Index]
       IN  ch' = IF Index = NullIndex \/ Item.data = ""
                    \/ SymbolIDFromStr(Item.data) = NoSymbolID
                 THEN [Called EXCEPT !.pc = "done"]
                 ELSE [Called EXCEPT !.pc = "refs"]
    /\ UNCHANGED <<tx, ls, rf, fr, en, th, ar, pd, nb, cf>>

\* The callback of Index->refs or Index->containedRefs for one call site.
CallsRefCallback(R) ==
    /\ ch.pc = "refs"
    /\ R \in ChRefsOf(ch.op)
    /\ SymbolIDFromStr(ch.Item.data) = 1
    /\ R.n \notin ch.RefsDelivered
    /\ LET Loc == indexToLSPLocation(R.Location, ch.Item.uri)
       IN  IF Loc = NoLocation
           THEN ch' = [ch EXCEPT !.RefsDelivered = @ \cup {R.n}]
           ELSE ch' = [ch EXCEPT !.RefsDelivered = @ \cup {R.n},
                                 !.Calls[R.Peer] = Append(@, Loc),
                                 !.LookupIDs = @ \cup {R.Peer}]
    /\ UNCHANGED <<tx, ls, rf, fr, en, th, ar, pd, nb, cf>>

\* The refs request has returned.
CallsRefsDone ==
    /\ ch.pc = "refs"
    /\ { R.n : R \in ChRefsOf(ch.op) } \subseteq ch.RefsDelivered
    /\ ch' = [ch EXCEPT !.pc = "lookup"]
    /\ UNCHANGED <<tx, ls, rf, fr, en, th, ar, pd, nb, cf>>

\* The file a call site must be in to stay: the caller's for incomingCalls,
\* the item's for outgoingCalls.
RangesFile_OfPeer(op, CHI, Item) == CHI.uri

RangesFile(op, CHI, Item) == IF op = "incomingCalls" THEN CHI.uri ELSE Item.uri

\* The callback of Index->lookup for one caller or callee.  fromRanges keeps
\* with each range the file its Location named.
CallsLookupCallback(Sym) ==
    /\ ch.pc = "lookup"
    /\ Sym.ID \in ch.LookupIDs \ ch.SymbolsDelivered
    /\ LET CHI == symbolToCallHierarchyItem(Sym, ch.Item.uri)
           FromRanges == SelectSeq(ch.Calls[Sym.ID],
                                   LAMBDA L : L.uri = RangesFile(ch.op, CHI, ch.Item))
       IN  IF CHI = NoItem
           THEN ch' = [ch EXCEPT !.SymbolsDelivered = @ \cup {Sym.ID}]
           ELSE ch' = [ch EXCEPT
                         !.SymbolsDelivered = @ \cup {Sym.ID},
                         !.Results = Append(@, [peer |-> CHI,
                                                fromRanges |-> FromRanges])]
    /\ UNCHANGED <<tx, ls, rf, fr, en, th, ar, pd, nb, cf>>

\* The lookup has returned: the entries are sorted and returned.
CallsLookupDone ==
    /\ ch.pc = "lookup"
    /\ ch.LookupIDs \cap ChSymbolIDs \subseteq ch.SymbolsDelivered
    /\ \E Sorted \in SortedCalls(ch.Results) :
          ch' = [ch EXCEPT !.pc = "done", !.Results = Sorted]
    /\ UNCHANGED <<tx, ls, rf, fr, en, th, ar, pd, nb, cf>>

CallsInit ==
    /\ ch = ChIdle
    /\ tx = Off /\ ls = Off /\ rf = Off /\ fr = Off /\ en = Off /\ th = Off
    /\ ar = Off /\ pd = Off /\ nb = Off /\ cf = Off

CallsNext ==
    \/ \E op \in {"incomingCalls", "outgoingCalls"}, Item \in CallHierarchyItems,
          Index \in IndexPtrs : CallsCall(op, Item, Index)
    \/ \E R \in ChRefsIn \cup ChRefsOut : CallsRefCallback(R)
    \/ CallsRefsDone
    \/ \E id \in ChSymbolIDs : CallsLookupCallback(ChSymbol(id))
    \/ CallsLookupDone

SpecCalls == CallsInit /\ [][CallsNext]_vars

\* The call has run its index queries and returned.
C15_Returned == ch.pc = "done" /\ ch.RefsDelivered # {}

\* The entry of the result for the caller or callee id, as a set of positions.
C15_EntriesOf(id) == { k \in 1..Len(ch.Results) : ch.Results[k].peer.data = SymbolIDStr(id) }

\* The call sites the index reports for the caller or callee id.
C15_ReportedFor(id) == { R \in ChRefsOf(ch.op) : R.Peer = id }

C15_OrderedByName ==
    \A j, k \in 1..Len(ch.Results) :
        j < k => NameRank(ch.Results[j].peer.name) <= NameRank(ch.Results[k].peer.name)

\* The entry at position k carries the call site R.
C15_Carries(k, R) ==
    \E n \in 1..Len(ch.Results[k].fromRanges) :
        ch.Results[k].fromRanges[n].line = R.Location.line

\* C15 as stated: incomingCalls and outgoingCalls return exactly one entry for
\* each distinct caller or callee the index lookup resolves, each entry carries
\* every call site the index reported for it, and the entries are ordered by
\* non-decreasing name.
C15_OneEntryWithAllRanges ==
    C15_Returned =>
        LET Peers == { R.Peer : R \in ChRefsOf(ch.op) } \cap ChSymbolIDs
        IN  /\ Len(ch.Results) = Cardinality(Peers)
            /\ \A id \in Peers :
                  /\ Cardinality(C15_EntriesOf(id)) = 1
                  /\ \A k \in C15_EntriesOf(id), R \in C15_ReportedFor(id) : C15_Carries(k, R)
            /\ C15_OrderedByName

\* The call sites of id that stay: the location converts and names the file
\* the ranges are read in.
C15_KeptFor(id) ==
    { R \in C15_ReportedFor(id) :
        /\ indexToLSPLocation(R.Location, ch.Item.uri) # NoLocation
        /\ indexToLSPLocation(R.Location, ch.Item.uri).uri =
              IF ch.op = "incomingCalls"
              THEN symbolToLocation(ChSymbol(id), ch.Item.uri).uri
              ELSE ch.Item.uri }

\* C15, amended: there is exactly one entry for each distinct caller or callee
\* that has a call site with a convertible location, that the lookup delivers
\* and whose symbol converts to an item; the entry carries exactly the call
\* sites of it whose location converts and lies in the file the ranges are
\* read in, each once; the entries are ordered by non-decreasing name.
C15_OneEntryWithKeptRanges ==
    C15_Returned =>
        LET Peers == { id \in ChSymbolIDs :
                         /\ \E R \in C15_ReportedFor(id) :
                               indexToLSPLocation(R.Location, ch.Item.uri) # NoLocation
                         /\ symbolToLocation(ChSymbol(id), ch.Item.uri) # NoLocation }
        IN  /\ Len(ch.Results) = Cardinality(Peers)
            /\ \A id \in Peers :
                  /\ Cardinality(C15_EntriesOf(id)) = 1
                  /\ \A k \in C15_EntriesOf(id) :
                        /\ Len(ch.Results[k].fromRanges) = Cardinality(C15_KeptFor(id))
                        /\ \A R \in C15_ReportedFor(id) :
                              C15_Carries(k, R) <=> R \in C15_KeptFor(id)
            /\ C15_OrderedByName

\* incomingCalls has returned three entries, the lookup having delivered b
\* before both a; b's entry has two of its three call sites.
C15_Witness ==
    /\ C15_Returned
    /\ ch.op = "incomingCalls"
    /\ Len(ch.Results) = 3
    /\ ch.Results[3].peer.data = SymbolIDStr(2)
    /\ Len(ch.Results[3].fromRanges) = 2
    /\ ch.Results[1].peer.data = SymbolIDStr(6)

\* C16 as stated: every range of an entry of incomingCalls or outgoingCalls
\* lies in the file of the entry's own item (from for incomingCalls, to for
\* outgoingCalls).
C16_RangesInEntryFile ==
    C15_Returned =>
        \A k \in 1..Len(ch.Results) :
            \A n \in 1..Len(ch.Results[k].fromRanges) :
                ch.Results[k].fromRanges[n].uri = ch.Results[k].peer.uri

\* C16, amended: every range of an entry of incomingCalls lies in the file of
\* the entry's from item; every range of an entry of outgoingCalls lies in
\* the file of the item outgoingCalls was asked about, whatever the file of
\* the entry's to item; a call site in another file is not in the entry.
C16_RangesInCallerFile ==
    C15_Returned =>
        \A k \in 1..Len(ch.Results) :
            /\ \A n \in 1..Len(ch.Results[k].fromRanges) :
                  ch.Results[k].fromRanges[n].uri =
                     IF ch.op = "incomingCalls" THEN ch.Results[k].peer.uri
                     ELSE ch.Item.uri
            /\ \A R \in ChRefsOf(ch.op) :
                  (/\ ch.Results[k].peer.data = SymbolIDStr(R.Peer)
                   /\ R.Location.FileURI.body #
                         (IF ch.op = "incomingCalls" THEN ch.Results[k].peer.uri
                          ELSE ch.Item.uri))
                  => ~C15_Carries(k, R)

\* outgoingCalls has returned b's entry with two ranges in the item's file,
\* which is not b's, and without the call site in b's file.
C16_Witness ==
    /\ C15_Returned
    /\ ch.op = "outgoingCalls"
    /\ \E k \in 1..Len(ch.Results) :
          /\ ch.Results[k].peer.data = SymbolIDStr(2)
          /\ ch.Results[k].peer.uri # ch.Item.uri
          /\ Len(ch.Results[k].fromRanges) = 2
          /\ \A n \in 1..2 : ch.Results[k].fromRanges[n].uri = ch.Item.uri

(***************************************************************************)
(* locateASTReferent: the declarations under the cursor, enhanced from the *)
(* index, followed by the overriders of a pure-virtual method             *)
(* (findImplementors).  The call of enhanceLocatedSymbolsFromIndex runs    *)
(* the actions of that component on en.                                    *)
(*                                                                         *)
(* The translation unit declares                                           *)
(*   1  Base::f, pure virtual (SymbolID 2)                                 *)
(*   2  Derived::f override, overriding 1 (SymbolID 1)                     *)
(*   3  Multi::g override, overriding 9 and 6                              *)
(*   5  A::g and its redeclaration 9; 6 B::g, whose name is in no file     *)
(*   7  Leaf::h, virtual final, overriding nothing                         *)
(*   4  a function; 10 a using-declaration naming it                       *)
(*   12 a class template specialization of the template 13                 *)
(*   14 an Objective-C method definition overriding 15                     *)
(*   16 an Objective-C category of the class 17                            *)
(***************************************************************************)
AstDecl(kind, name, sid, at, loc, def, pure, overridden, related) ==
    [kind |-> kind, name |-> name, sid |-> sid, at |-> at, loc |-> loc, def |-> def,
     pure |-> pure, overridden |-> overridden, related |-> related]

\* No declaration (a null pointer).
NoDecl == 0

AstDecls(D) ==
    CASE D = 1  -> AstDecl("CXXMethod", <<"Base::", "f">>, 2, 10,
                           [uri |-> "/y.h", line |-> 20], NoDecl, TRUE, <<>>, NoDecl)
      [] D = 2  -> AstDecl("CXXMethod", <<"Derived::", "f">>, 1, 20,
                           [uri |-> "/x.h", line |-> 1], 2, FALSE, <<1>>, NoDecl)
      [] D = 3  -> AstDecl("CXXMethod", <<"Multi::", "g">>, 5, 30,
                           [uri |-> MainFilePath, line |-> 30], NoDecl, FALSE, <<9, 6>>, NoDecl)
      [] D = 5  -> AstDecl("CXXMethod", <<"A::", "g">>, 5, 50,
                           [uri |-> "/v.h", line |-> 5], NoDecl, FALSE, <<>>, NoDecl)
      [] D = 9  -> AstDecl("CXXMethod", <<"A::", "g">>, 5, 90,
                           [uri |-> "/v.cpp", line |-> 9], 9, FALSE, <<>>, NoDecl)
      [] D = 6  -> AstDecl("CXXMethod", <<"B::", "g">>, NoSymbolID, 60,
                           NoLocation, NoDecl, FALSE, <<>>, NoDecl)
      [] D = 7  -> AstDecl("CXXMethod", <<"Leaf::", "h">>, 5, 70,
                           [uri |-> MainFilePath, line |-> 70], NoDecl, FALSE, <<>>, NoDecl)
      [] D = 4  -> AstDecl("Function", <<"", "fn">>, 4, 40,
                           [uri |-> "/w.h", line |-> 4], NoDecl, FALSE, <<>>, NoDecl)
      [] D = 10 -> AstDecl("UsingDecl", <<"", "fn">>, NoSymbolID, 100,
                           [uri |-> MainFilePath, line |-> 100], NoDecl, FALSE, <<>>, NoDecl)
      [] D = 12 -> AstDecl("ClassTemplateSpecialization", <<"", "S<int>">>, 5, 120,
                           [uri |-> MainFilePath, line |-> 120], 12, FALSE, <<>>, 13)
      [] D = 13 -> AstDecl("ClassTemplate", <<"", "S">>, 3, 130,
                           [uri |-> "/z.pb.h", line |-> 3], 13, FALSE, <<>>, NoDecl)
      [] D = 14 -> AstDecl("ObjCMethod", <<"Impl::", "m">>, 5, 140,
                           [uri |-> MainFilePath, line |-> 140], 14, FALSE, <<15>>, NoDecl)
      [] D = 15 -> AstDecl("ObjCMethod", <<"Proto::", "m">>, 5, 150,
                           [uri |-> "/p.h", line |-> 15], NoDecl, FALSE, <<>>, NoDecl)
      [] D = 16 -> AstDecl("ObjCCategory", <<"", "Cls(Cat)">>, 5, 160,
                           [uri |-> MainFilePath, line |-> 160], NoDecl, FALSE, <<>>, 17)
      [] OTHER  -> AstDecl("ObjCInterface", <<"", "Cls">>, 5, 170,
                           [uri |-> "/c.h", line |-> 17], NoDecl, FALSE, <<>>, NoDecl)

\* A declaration as one of the redeclarations of an entity: the entity's
\* kind, how many declarations it has, which of them is the definition (0:
\* none) and which of them this is.  The first is Clang's canonical one.
Redecl(kind, redecls, def, at) ==
    [kind |-> kind, redecls |-> redecls, def |-> def, at |-> at]

\* A variant that looks for the definition only from the canonical
\* declaration.
getPreferredDecl_FromCanonical(D) ==
    IF D.at # 1 THEN [D EXCEPT !.at = 1]
    ELSE IF D.kind \in {"ObjCInterface", "ObjCProtocol"} /\ D.def # 0
    THEN [D EXCEPT !.at = D.def]
    ELSE D

\* getPreferredDecl: the canonical declaration, but the definition of an
\* Objective-C class or protocol that has one.
getPreferredDecl(D) ==
    LET Canonical == [D EXCEPT !.at = 1]
    IN  IF Canonical.kind \in {"ObjCInterface", "ObjCProtocol"} /\ Canonical.def # 0
        THEN [Canonical EXCEPT !.at = Canonical.def]
        ELSE Canonical

\* The declarations of the translation unit as redeclarations: 9 is the
\* second declaration, and the definition, of the method 5 declares.
AstRedecl(D) ==
    IF D \in {5, 9} THEN Redecl("CXXMethod", 2, 2, IF D = 5 THEN 1 ELSE 2)
    ELSE Redecl(AstDecls(D).kind, 1, IF AstDecls(D).def = D THEN 1 ELSE 0, 1)

\* getPreferredDecl on a declaration of the translation unit.
AstPreferred(D) ==
    IF D \in {5, 9} THEN <<5, 9>>[getPreferredDecl(AstRedecl(D)).at] ELSE D

\* A node of the selection tree: its kind, whether it is an attribute, what
\* allTargetDecls gives for it, and its parent.
NoNode == [kind |-> "none"]

AstNode(kind, isAttr, targets, Parent) ==
    [kind |-> kind, isAttr |-> isAttr, targets |-> targets, Parent |-> Parent]

Target(D, rel) == [D |-> D, rel |-> rel]

\* DeclRelation::TemplatePattern | DeclRelation::Alias
LocateRelations == {"TemplatePattern", "Alias"}

\* A variant that resolves the targets from the attribute node itself.
TargetNode_Self(N) == N

\* Attributes do not target declarations: the node they are attached to does.
TargetNode(N) == IF N.isAttr /\ N.Parent # NoNode THEN N.Parent ELSE N

\* getDeclAtPositionWithRelations for the node commonAncestor() gives: the
\* candidates and the node's own kind.
getDeclAtPositionWithRelations(N, Relations) ==
    [NodeKind |-> N.kind,
     Result |-> SelectSeq(TargetNode(N).targets, LAMBDA E : E.rel \subseteq Relations)]

\* What the cursor is on: the selected node, the identifier token touching it
\* (its location and text) and the declarations whose range holds the cursor.
AstCursor(name, Node, Touched, Text, Within) ==
    [name |-> name, Node |-> Node, Touched |-> Touched, Text |-> Text, Within |-> Within]

MethodNode(D) == AstNode("CXXMethodDecl", FALSE, <<Target(D, {})>>, NoNode)

AstCursors ==
    { AstCursor("name of pure virtual", MethodNode(1), Some(10), "f", {1}),
      AstCursor("call of pure virtual",
                AstNode("MemberExpr", FALSE, <<Target(1, {})>>, NoNode), Some(11), "f", {}),
      AstCursor("pure virtual and function",
                AstNode("OverloadExpr", FALSE, <<Target(4, {}), Target(1, {})>>, NoNode),
                Some(10), "f", {}),
      AstCursor("override of Derived::f",
                AstNode("OverrideAttr", TRUE, <<>>, MethodNode(2)), Some(21), "override", {2}),
      AstCursor("override of Multi::g",
                AstNode("OverrideAttr", TRUE, <<>>, MethodNode(3)), Some(31), "override", {3}),
      AstCursor("final of Leaf::h",
                AstNode("FinalAttr", TRUE, <<>>, MethodNode(7)), Some(71), "final", {7}),
      AstCursor("name of Derived::f", MethodNode(2), Some(20), "f", {2}),
      AstCursor("using declaration",
                AstNode("UsingDecl", FALSE,
                        <<Target(10, {"Alias"}), Target(4, {}), Target(5, {"Underlying"})>>,
                        NoNode), Some(100), "fn", {10}),
      AstCursor("alias alone",
                AstNode("UsingDecl", FALSE, <<Target(10, {"Alias"})>>, NoNode),
                Some(100), "fn", {10}),
      AstCursor("use of alias",
                AstNode("DeclRefExpr", FALSE, <<Target(4, {}), Target(10, {"Alias"})>>,
                        NoNode), Some(41), "fn", {}),
      AstCursor("using declaration, no identifier",
                AstNode("UsingDecl", FALSE, <<Target(10, {"Alias"}), Target(4, {})>>,
                        NoNode), None, "", {10}),
      AstCursor("template specialization",
                AstNode("ClassTemplateSpecializationDecl", FALSE, <<Target(12, {})>>, NoNode),
                Some(120), "S", {12}),
      AstCursor("objc method",
                AstNode("ObjCMethodDecl", FALSE, <<Target(14, {})>>, NoNode),
                Some(140), "m", {14}),
      AstCursor("objc category",
                AstNode("ObjCCategoryDecl", FALSE, <<Target(16, {})>>, NoNode),
                Some(161), "Cls", {16}),
      AstCursor("no identifier",
                AstNode("CXXMethodDecl", FALSE, <<Target(1, {})>>, NoNode), None, "", {1}) }

\* AddResultDecl: nothing is added when makeLocation fails.
AddResultDecl(Result, D0) ==
    LET D == AstDecls(AstPreferred(D0))
    IN  IF D.loc = NoLocation THEN Result
        ELSE Append(Result,
                    Located(D.name, D.loc,
                            IF D.def # NoDecl THEN AstDecls(D.def).loc ELSE NoLocation,
                            D.sid))

RECURSIVE AddResultDecls(_, _)
AddResultDecls(Result, Ds) ==
    IF Ds = <<>> THEN Result
    ELSE AddResultDecls(AddResultDecl(Result, Head(Ds)), Tail(Ds))

\* A variant that leaves out every alias.
AliasSkipped_Always(E, NCandidates, Cursor) == "Alias" \in E.rel

\* The cursor is on an alias and there are other candidates: the alias is
\* passed over.  Within holds the declarations whose range has the touched
\* identifier, or the cursor when there is none.
AliasSkipped(E, NCandidates, Cursor) ==
    "Alias" \in E.rel /\ NCandidates > 1 /\ E.D \in Cursor.Within

\* One round of the loop over Candidates.
AstCandidate(acc, E, NCandidates, NodeKind, Cursor) ==
    LET D == AstDecls(E.D)
        Touches == Cursor.Touched.has /\ D.at = Cursor.Touched.v
        Virtual == IF D.kind = "CXXMethod" /\ D.pure /\ Touches
                   THEN acc.VirtualMethods \cup {D.sid} ELSE acc.VirtualMethods
    IN  IF D.kind = "CXXMethod" /\ NodeKind \in {"OverrideAttr", "FinalAttr"}
        THEN [Result |-> AddResultDecls(acc.Result, D.overridden), VirtualMethods |-> Virtual]
        ELSE IF D.kind = "ObjCMethod" /\ D.def = E.D /\ Touches
        THEN [Result |-> AddResultDecl(AddResultDecls(acc.Result, D.overridden), E.D),
              VirtualMethods |-> Virtual]
        ELSE IF AliasSkipped(E, NCandidates, Cursor)
        THEN [Result |-> acc.Result, VirtualMethods |-> Virtual]
        ELSE IF D.kind = "ClassTemplateSpecialization" /\ Touches
        THEN [Result |-> AddResultDecl(acc.Result, D.related), VirtualMethods |-> Virtual]
        ELSE IF /\ D.kind = "ObjCCategory" /\ D.related # NoDecl /\ Cursor.Touched.has
                /\ (Touches \/ AstDecls(D.related).name[2] = Cursor.Text)
        THEN [Result |-> AddResultDecl(AddResultDecl(acc.Result, D.related), E.D),
              VirtualMethods |-> Virtual]
        ELSE [Result |-> AddResultDecl(acc.Result, E.D), VirtualMethods |-> Virtual]

RECURSIVE AstCandidates(_, _, _, _, _)
AstCandidates(acc, Es, NCandidates, NodeKind, Cursor) ==
    IF Es = <<>> THEN acc
    ELSE AstCandidates(AstCandidate(acc, Head(Es), NCandidates, NodeKind, Cursor),
                       Tail(Es), NCandidates, NodeKind, Cursor)

\* The overridden-by relation of the index (subject is overridden by object)
\* and the symbols of its objects: 33 has a declaration whose URI does not
\* resolve, 32 has no definition.
ImplOverriddenBy == { <<2, 31>>, <<2, 32>>, <<2, 33>>, <<1, 34>> }

ImplSymbol(id) ==
    CASE id = 31 -> [ID |-> 31, Name |-> <<"D1::", "f">>,
                     CanonicalDeclaration |-> SymLoc("file", "/d1.h", 31),
                     Definition |-> SymLoc("file", "/d1.cpp", 31)]
      [] id = 32 -> [ID |-> 32, Name |-> <<"D2::", "f">>,
                     CanonicalDeclaration |-> SymLoc("file", "/d2.h", 32),
                     Definition |-> NoSymbolLocation]
      [] id = 33 -> [ID |-> 33, Name |-> <<"D3::", "f">>,
                     CanonicalDeclaration |-> SymLoc("unknown", "/d3.h", 33),
                     Definition |-> SymLoc("file", "/d3.cpp", 33)]
      [] OTHER  -> [ID |-> id, Name |-> <<"E::", "f">>,
                    CanonicalDeclaration |-> SymLoc("file", "/e.h", 34),
                    Definition |-> SymLoc("file", "/e.h", 34)]

\* A variant that puts the overriders first.
WithOverrides_First(Result, Overrides) == Overrides \o Result

\* Result.insert(Result.end(), Overrides.begin(), Overrides.end())
WithOverrides(Result, Overrides) == Result \o Overrides

ArIdle ==
    [pc |-> "idle", Index |-> NullIndex,
     Cursor |-> AstCursor("none", NoNode, None, "", {}),
     NodeKind |-> "none", Result |-> <<>>, ASTResults |-> 0, VirtualMethods |-> {},
     Overrides |-> <<>>, Delivered |-> {}, Previous |-> None]

\* locateASTReferent up to the call of enhanceLocatedSymbolsFromIndex.  A
\* call that repeats the one that has returned keeps the earlier result in
\* Previous.
LocateASTReferentCall(Cursor, Index) ==
    /\ \/ ar.pc = "idle"
       \/ ar.pc = "done" /\ ~ar.Previous.has /\ Cursor = ar.Cursor /\ Index = ar.Index
    /\ en = EnIdle
    /\ LET Candidates == getDeclAtPositionWithRelations(Cursor.Node, LocateRelations)
           acc == AstCandidates([Result |-> <<>>, VirtualMethods |-> {}],
                                Candidates.Result, Len(Candidates.Result),
                                Candidates.NodeKind, Cursor)
       IN  ar' = [ArIdle EXCEPT
                    !.pc = "enhance", !.Index = Index, !.Cursor = Cursor,
                    !.NodeKind = Candidates.NodeKind,
                    !.Result = acc.Result, !.ASTResults = Len(acc.Result),
                    !.VirtualMethods = acc.VirtualMethods,
                    !.Previous = IF ar.pc = "done" THEN Some(ar.Result) ELSE None]
    /\ UNCHANGED <<tx, ls, rf, fr, en, th, ch, pd, nb, cf>>

\* enhanceLocatedSymbolsFromIndex has returned; findImplementors up to
\* Index->relations, or to its return when there is nothing to ask.
FindImplementorsCall ==
    /\ ar.pc = "enhance"
    /\ en.pc = "done"
    /\ en' = EnIdle
    /\ ar' = IF ar.VirtualMethods = {} \/ ar.Index = NullIndex
             THEN [ar EXCEPT !.pc = "done", !.Result = en.Result]
             ELSE [ar EXCEPT !.pc = "implementors", !.Result = en.Result]
    /\ UNCHANGED <<tx, ls, rf, fr, th, ch, pd, nb, cf>>

\* The callback of Index->relations for one overrider.
ImplementorsCallback(Subject, Object) ==
    /\ ar.pc = "implementors"
    /\ <<Subject, Object>> \in ImplOverriddenBy
    /\ Subject \in ar.VirtualMethods
    /\ <<Subject, Object>> \notin ar.Delivered
    /\ LET Sym == ImplSymbol(Object)
           DeclLoc == indexToLSPLocation(Sym.CanonicalDeclaration, MainFilePath)
           DefLoc == indexToLSPLocation(Sym.Definition, MainFilePath)
       IN  ar' = [ar EXCEPT
                    !.Delivered = @ \cup {<<Subject, Object>>},
                    !.Overrides = IF DeclLoc = NoLocation THEN @
                                  ELSE Append(@, Located(Sym.Name, DeclLoc, DefLoc,
                                                         NoSymbolID))]
    /\ UNCHANGED <<tx, ls, rf, fr, en, th, ch, pd, nb, cf>>

\* Index->relations has returned: the overriders go after the results of the
\* AST and locateASTReferent returns.
ImplementorsDone ==
    /\ ar.pc = "implementors"
    /\ \A r \in ImplOverriddenBy : r[1] \in ar.VirtualMethods => r \in ar.Delivered
    /\ ar' = [ar EXCEPT !.pc = "done", !.Result = WithOverrides(@, ar.Overrides)]
    /\ UNCHANGED <<tx, ls, rf, fr, en, th, ch, pd, nb, cf>>

AstReferentInit ==
    /\ ar = ArIdle
    /\ en = EnIdle
    /\ tx = Off /\ ls = Off /\ rf = Off /\ fr = Off /\ th = Off /\ ch = Off
    /\ pd = Off /\ nb = Off /\ cf = Off

AstReferentNext ==
    \/ \E Cursor \in AstCursors, Index \in IndexPtrs : LocateASTReferentCall(Cursor, Index)
    \/ ar.pc = "enhance" /\ EnhanceCall(ar.Result, ar.Index)
    \/ \E id \in EnSymbolIDs : LookupCallback(EnSymbol(id))
    \/ LookupDone
    \/ FindImplementorsCall
    \/ \E r \in ImplOverriddenBy : ImplementorsCallback(r[1], r[2])
    \/ ImplementorsDone

SpecAstReferent == AstReferentInit /\ [][AstReferentNext]_vars

(***************************************************************************)
(* Claims about locateASTReferent.                                         *)
(***************************************************************************)
\* C17: for fixed index content the output of an operation is the same
\* whatever order the index delivers its callbacks in: a call of
\* locateASTReferent that repeats an earlier one returns the same overriders
\* in the same order.
C17_SameResultOnRepeat ==
    (ar.pc = "done" /\ ar.Previous.has) => ar.Result = ar.Previous.v

\* The cursor is on the name of a pure-virtual method and locateASTReferent
\* has returned.
C19_AtPureVirtual ==
    /\ ar.pc = "done"
    /\ ar.Cursor.name \in {"name of pure virtual", "pure virtual and function"}

\* The overriders the relation yields for the methods asked about.
C19_Yielded ==
    IF ar.Index = NullIndex THEN {}
    ELSE { r[2] : r \in { q \in ImplOverriddenBy : q[1] \in ar.VirtualMethods } }

\* The result has the method's own entry among the first ASTResults entries
\* and after them exactly one entry for each overrider of the set Overriders.
C19_OwnThenOverriders(Overriders) ==
    /\ ar.VirtualMethods = {AstDecls(1).sid}
    /\ \E k \in 1..ar.ASTResults :
          ar.Result[k].Name = AstDecls(1).name /\ ar.Result[k].ID = AstDecls(1).sid
    /\ Len(ar.Result) = ar.ASTResults + Cardinality(Overriders)
    /\ \A O \in Overriders :
          \E k \in (ar.ASTResults + 1)..Len(ar.Result) :
              ar.Result[k].Name = ImplSymbol(O).Name
    /\ \A k \in 1..ar.ASTResults :
          \A O \in C19_Yielded : ar.Result[k].Name # ImplSymbol(O).Name

\* C19 as stated: at the name token of a pure-virtual method the result has
\* the method's own entry and one entry for every overrider the index's
\* overridden-by relation yields, after all entries of the AST.
C19_EveryOverriderAppended ==
    C19_AtPureVirtual => C19_OwnThenOverriders(C19_Yielded)

\* C19, amended: at the name token of a pure-virtual method the result has
\* the method's own entry and one entry for every overrider the index's
\* overridden-by relation yields whose declaration location converts, after
\* all entries of the AST.
C19_ConvertibleOverridersAppended ==
    C19_AtPureVirtual =>
        C19_OwnThenOverriders(
            { O \in C19_Yielded :
                indexToLSPLocation(ImplSymbol(O).CanonicalDeclaration, MainFilePath)
                    # NoLocation })

\* The result for the pure-virtual method named together with a function:
\* two entries of the AST, then the overriders D2::f and D1::f.
C19_Witness ==
    /\ ar.pc = "done"
    /\ ar.Cursor.name = "pure virtual and function"
    /\ ar.ASTResults = 2
    /\ Len(ar.Result) = 4
    /\ ar.Result[2].Name = <<"Base::", "f">>
    /\ ar.Result[3].Name = <<"D2::", "f">>
    /\ ar.Result[4].Name = <<"D1::", "f">>

\* The cursor is on an override or final marker of a method and
\* locateASTReferent has returned.
C20_AtMarker == ar.pc = "done" /\ ar.Cursor.Node.isAttr

\* The method the marker decorates.
C20_Method == ar.Cursor.Node.Parent.targets[1].D

\* The node kind is the attribute's, the result is the preferred declarations
\* of the methods Overridden in their order, and the method is not in it.
C20_ResultIs(Overridden) ==
    /\ ar.NodeKind = ar.Cursor.Node.kind
    /\ ar.NodeKind \in {"OverrideAttr", "FinalAttr"}
    /\ Len(ar.Result) = Len(Overridden)
    /\ \A k \in 1..Len(Overridden) :
          /\ ar.Result[k].Name = AstDecls(AstPreferred(Overridden[k])).name
          /\ ar.Result[k].PreferredDeclaration.line =
                 AstDecls(AstPreferred(Overridden[k])).loc.line
    /\ \A k \in 1..Len(ar.Result) : ar.Result[k].Name # AstDecls(C20_Method).name

\* C20 as stated: on an override or final marker of a method the node kind
\* stays the attribute's and the result consists of the preferred
\* declarations of the methods the decorated method directly overrides,
\* without the method itself.
C20_MarkerYieldsOverridden ==
    C20_AtMarker => C20_ResultIs(AstDecls(C20_Method).overridden)

\* C20, amended: on an override or final marker of a method the node kind
\* stays the attribute's and the result consists of the preferred
\* declarations of those directly overridden methods whose name has a
\* location in a file, without the method itself.
C20_MarkerYieldsLocatedOverridden ==
    C20_AtMarker =>
        C20_ResultIs(SelectSeq(AstDecls(C20_Method).overridden,
                               LAMBDA D : AstDecls(AstPreferred(D)).loc # NoLocation))

\* On the override marker of Derived::f the result is Base::f alone.
C20_Witness ==
    /\ ar.pc = "done"
    /\ ar.Cursor.name = "override of Derived::f"
    /\ ar.NodeKind = "OverrideAttr"
    /\ Len(ar.Result) = 1
    /\ ar.Result[1].Name = <<"Base::", "f">>

\* The candidates of the call that has returned.
C21_Candidates == getDeclAtPositionWithRelations(ar.Cursor.Node, LocateRelations).Result

\* The AST's results hold an entry at the declaration D.
C21_InResult(D) ==
    \E k \in 1..ar.ASTResults : ar.Result[k].PreferredDeclaration.line = AstDecls(D).loc.line

MaxRedecls == 3

RedeclKinds == {"ObjCInterface", "ObjCProtocol", "CXXMethod", "Function"}

Redecls ==
    { Redecl(kind, n, def, at) :
        kind \in RedeclKinds, n \in 1..MaxRedecls, def \in 0..MaxRedecls,
        at \in 1..MaxRedecls }

PdIdle == [pc |-> "idle", D |-> Redecl("Function", 1, 0, 1),
          Once |-> Redecl("Function", 1, 0, 1), Twice |-> Redecl("Function", 1, 0, 1)]

\* getPreferredDecl(D)
PreferredDeclCall(D) ==
    /\ pd.pc = "idle"
    /\ D.def <= D.redecls /\ D.at <= D.redecls
    /\ pd' = [pd EXCEPT !.pc = "once", !.D = D, !.Once = getPreferredDecl(D)]
    /\ UNCHANGED <<tx, ls, rf, fr, en, th, ch, ar, nb, cf>>

\* getPreferredDecl on the declaration the first call returned.
PreferredDeclAgain ==
    /\ pd.pc = "once"
    /\ pd' = [pd EXCEPT !.pc = "twice", !.Twice = getPreferredDecl(pd.Once)]
    /\ UNCHANGED <<tx, ls, rf, fr, en, th, ch, ar, nb, cf>>

PreferredInit ==
    /\ pd = PdIdle
    /\ tx = Off /\ ls = Off /\ rf = Off /\ fr = Off /\ en = Off /\ th = Off
    /\ ch = Off /\ ar = Off /\ nb = Off /\ cf = Off

PreferredNext ==
    \/ \E D \in Redecls : PreferredDeclCall(D)
    \/ PreferredDeclAgain

SpecPreferred == PreferredInit /\ [][PreferredNext]_vars

\* C23: getPreferredDecl is idempotent, for Objective-C classes and
\* protocols with a definition too.
C23_Idempotent == pd.pc = "twice" => pd.Twice = pd.Once

\* A forward declaration of an Objective-C class whose third declaration is
\* the definition: both calls give the definition.
C23_Witness ==
    /\ pd.pc = "twice"
    /\ pd.D = Redecl("ObjCInterface", 3, 3, 1)
    /\ pd.Once = Redecl("ObjCInterface", 3, 3, 3)
    /\ pd.Twice = pd.Once

(***************************************************************************)
(* findNearbyIdentifier: the search, around a word that is no token of the *)
(* expanded stream, for the closest identifier token with the same text.   *)
(*                                                                         *)
(* The word is at column 2 of its line; the file's tokens of interest are  *)
(* at columns 1 and 3 of its lines.  A token is an identifier with the     *)
(* word's text that expands to something ("live"), one that does not       *)
(* ("dead", as in a disabled preprocessor section), or any other token.    *)
(***************************************************************************)
\* The last line of the file.
MaxLine == 6
\* The longest word.
MaxWordLen == 2
\* The most tokens of interest in the file.
MaxTokens == 2

\* std::numeric_limits<unsigned>::digits
UnsignedDigits == 32

NbTexts == SubSeq(<<"x", "xy", "xyz", "wxyz">>, 1, MaxWordLen)

\* Word.Text.size()
TextSize(Text) == CHOOSE n \in 1..Len(NbTexts) : NbTexts[n] = Text

WordColumn == 2

NbToken(line, col, kind) == [line |-> line, col |-> col, kind |-> kind]

NoTok == [kind |-> "nullptr"]

NbTokenPlaces == { NbToken(line, col, kind) :
                     line \in 1..MaxLine, col \in {1, 3}, kind \in {"live", "dead", "other"} }

\* The token streams of at most n tokens: no two tokens at one place.
RECURSIVE NbStreamsUpTo(_)
NbStreamsUpTo(n) ==
    IF n = 0 THEN { {} }
    ELSE LET Fewer == NbStreamsUpTo(n - 1)
         IN  Fewer \cup
             { S \cup {t} : S \in Fewer, t \in NbTokenPlaces }

NbTokenStreams ==
    { S \in NbStreamsUpTo(MaxTokens) :
        \A s, t \in S : (s.line = t.line /\ s.col = t.col) => s = t }

\* SourceLocation order within the file.
LocBefore(line1, col1, line2, col2) == line1 < line2 \/ (line1 = line2 /\ col1 < col2)

\* The tokens of S in the order of their locations.
RECURSIVE InOrder(_)
InOrder(S) ==
    IF S = {} THEN <<>>
    ELSE LET first == CHOOSE t \in S :
                          \A u \in S \ {t} : LocBefore(t.line, t.col, u.line, u.col)
         IN  <<first>> \o InOrder(S \ {first})

Reverse(s) == [k \in 1..Len(s) |-> s[Len(s) + 1 - k]]

\* A variant that does not penalize the tokens before the word.
Cost_Symmetric(Line, WordLine) ==
    IF Line >= WordLine THEN Line - WordLine ELSE WordLine - Line

\* Cost: the line distance, doubled backwards.
Cost(Line, WordLine) ==
    IF Line >= WordLine THEN Line - WordLine ELSE 2 * (WordLine - Line)

Min(a, b) == IF a <= b THEN a ELSE b

MaxDistance(Text) == 2 ^ Min(TextSize(Text), UnsignedDigits - 1)

LineMin(WordLine, Text) ==
    IF WordLine + 1 <= MaxDistance(Text) \div 2 THEN 1
    ELSE WordLine + 1 - MaxDistance(Text) \div 2

LineMax(WordLine, Text) == WordLine + 1 + MaxDistance(Text)

\* Tok.location() < LocMin || Tok.location() > LocMax, LocMin and LocMax
\* being the first columns of LineMin and LineMax.
TooFar(Tok, Word) ==
    \/ LocBefore(Tok.line, Tok.col, LineMin(Word.Line, Word.Text), 1)
    \/ LocBefore(LineMax(Word.Line, Word.Text), 1, Tok.line, Tok.col)

\* Consider(Tok): acc holds BestTok, BestCost and whether the loop breaks.
Consider(acc, Tok, Word) ==
    IF TooFar(Tok, Word) THEN [acc EXCEPT !.stop = TRUE]
    ELSE IF Tok.kind = "other" THEN acc
    ELSE IF Tok.line = Word.Line /\ Tok.col = WordColumn THEN acc
    ELSE IF acc.BestTok # NoTok /\ Cost(Tok.line, Word.Line) >= acc.BestCost
    THEN [acc EXCEPT !.stop = TRUE]
    ELSE IF Tok.kind # "live" THEN acc
    ELSE [acc EXCEPT !.BestTok = Tok, !.BestCost = Cost(Tok.line, Word.Line)]

\* A loop over tokens that Consider may break.
RECURSIVE ConsiderEach(_, _, _)
ConsiderEach(acc, Toks, Word) ==
    IF Toks = <<>> \/ acc.stop THEN acc
    ELSE ConsiderEach(Consider(acc, Head(Toks), Word), Tail(Toks), Word)

findNearbyIdentifier(Word, Tokens) ==
    IF NearbyBailsOut(Word) THEN NoTok
    ELSE LET SpelledTokens == InOrder(Tokens)
             After == SelectSeq(SpelledTokens,
                                LAMBDA T : ~LocBefore(T.line, T.col, Word.Line, WordColumn))
             Before == SelectSeq(SpelledTokens,
                                 LAMBDA T : LocBefore(T.line, T.col, Word.Line, WordColumn))
             Forward == ConsiderEach([BestTok |-> NoTok, BestCost |-> 0, stop |-> FALSE],
                                     After, Word)
             Backward == ConsiderEach([Forward EXCEPT !.stop = FALSE], Reverse(Before), Word)
         IN  Backward.BestTok

NbWords ==
    [Text : Range(NbTexts), ExpandedToken : BOOLEAN, LikelyIdentifier : BOOLEAN,
     PartOfSpelledToken : {"none", "string_literal"}, Line : 1..MaxLine]

NbIdle ==
    [pc |-> "idle",
     Word |-> [Text |-> NbTexts[1], ExpandedToken |-> FALSE, LikelyIdentifier |-> FALSE,
               PartOfSpelledToken |-> "none", Line |-> 1],
     Tokens |-> {}, Result |-> NoTok]

FindNearbyIdentifierCall(Word, Tokens) ==
    /\ nb.pc = "idle"
    /\ nb' = [pc |-> "done", Word |-> Word, Tokens |-> Tokens,
              Result |-> findNearbyIdentifier(Word, Tokens)]
    /\ UNCHANGED <<tx, ls, rf, fr, en, th, ch, ar, pd, cf>>

NearbyInit ==
    /\ nb = NbIdle
    /\ tx = Off /\ ls = Off /\ rf = Off /\ fr = Off /\ en = Off /\ th = Off
    /\ ch = Off /\ ar = Off /\ pd = Off /\ cf = Off

\* Words that make findNearbyIdentifier return at once are tried on one
\* token stream per size.
NearbyNext ==
    /\ nb.pc = "idle"
    /\ \E Word \in NbWords, Tokens \in NbTokenStreams :
          /\ NearbyBailsOut(Word) =>
                \A T \in Tokens : T.kind = "live" /\ T.col = 3 /\ T.line >= Word.Line
          /\ FindNearbyIdentifierCall(Word, Tokens)

SpecNearby == NearbyInit /\ [][NearbyNext]_vars

(***************************************************************************)
(* Claims about findNearbyIdentifier.                                      *)
(***************************************************************************)
\* The search ran to its end for a word it does not refuse.
C24_Searched == nb.pc = "done" /\ ~NearbyBailsOut(nb.Word)

\* The window as stated: at most 2^len lines after the word's line, at most
\* 2^(len-1) lines before it.
C24_InStatedWindow(T) ==
    /\ T.line <= nb.Word.Line + 2 ^ TextSize(nb.Word.Text)
    /\ nb.Word.Line <= T.line + 2 ^ (TextSize(nb.Word.Text) - 1)

\* C24: findNearbyIdentifier considers a token with the word's text exactly
\* when it lies at most 2^len lines after the word's line or at most
\* 2^(len-1) lines before it: a token outside is never returned, and a token
\* inside that is the only candidate is returned.
C24_WindowIsPowerOfTwoLines ==
    C24_Searched =>
        /\ nb.Result # NoTok => C24_InStatedWindow(nb.Result)
        /\ (\E T \in nb.Tokens : T.kind = "live" /\ C24_InStatedWindow(T))
              => nb.Result # NoTok

\* The cost as stated: the line distance on or after the word's line, twice
\* the line distance before it.
C25_Cost(T) ==
    IF T.line >= nb.Word.Line THEN T.line - nb.Word.Line
    ELSE 2 * (nb.Word.Line - T.line)

\* The eligible tokens of the window the search keeps to.
C25_Eligible == { T \in nb.Tokens : T.kind = "live" /\ ~TooFar(T, nb.Word) }

C25_IsForward(T) == ~LocBefore(T.line, T.col, nb.Word.Line, WordColumn)

\* C25: findNearbyIdentifier returns an eligible token of minimum cost; when
\* a forward and a backward token have that cost the forward one is
\* returned; it returns nothing only if the window has no eligible token.
C25_MinimumCostForwardFirst ==
    C24_Searched =>
        IF C25_Eligible = {} THEN nb.Result = NoTok
        ELSE /\ nb.Result \in C25_Eligible
             /\ \A T \in C25_Eligible : C25_Cost(nb.Result) <= C25_Cost(T)
             /\ (\E T \in C25_Eligible :
                     C25_IsForward(T) /\ C25_Cost(T) = C25_Cost(nb.Result))
                   => C25_IsForward(nb.Result)

\* A token two lines after the word and one a line before it cost the same:
\* the one after is returned.
C25_Witness ==
    /\ nb.pc = "done"
    /\ nb.Word.Line = 3 /\ nb.Word.Text = "xy" /\ ~nb.Word.ExpandedToken
    /\ nb.Word.PartOfSpelledToken = "none"
    /\ nb.Tokens = { NbToken(5, 1, "live"), NbToken(2, 3, "live") }
    /\ nb.Result = NbToken(5, 1, "live")

\* C26 as stated: findNearbyIdentifier yields a token only for a word that
\* has no expanded token and is plausibly an identifier; for any other word,
\* and for a word in a string literal, it returns nothing.
C26_OnlyForPlausibleNonTokens ==
    (nb.pc = "done" /\ nb.Result # NoTok) =>
        /\ ~nb.Word.ExpandedToken
        /\ nb.Word.LikelyIdentifier
        /\ ~isStringLiteral(nb.Word.PartOfSpelledToken)

\* C26, amended: findNearbyIdentifier yields a token only for a word that
\* has no expanded token and is not in a string literal, whether or not the
\* word is plausibly an identifier.
C26_OnlyForNonTokens ==
    (nb.pc = "done" /\ nb.Result # NoTok) =>
        /\ ~nb.Word.ExpandedToken
        /\ ~isStringLiteral(nb.Word.PartOfSpelledToken)

\* A token is found for a word that is no likely identifier.
C26_Witness ==
    /\ nb.pc = "done"
    /\ nb.Result # NoTok
    /\ ~nb.Word.LikelyIdentifier
    /\ ~nb.Word.ExpandedToken

(***************************************************************************)
(* Control-flow highlighting: relatedControlFlow and FindControlFlow.      *)
(*                                                                         *)
(* The translation unit is one function.  A node's number is its place in  *)
(* source order and stands for its location (the keyword of a statement):  *)
(*                                                                         *)
(*    1 function   2 {                                                     *)
(*    3   for      4 {                                                     *)
(*    5     break                                                          *)
(*    6     while  7 {  8 continue   9 return  }                           *)
(*   10     continue                                                       *)
(*   11     switch 12 {                                                    *)
(*   13       case A:  14 case B:  15 break                                *)
(*   16       return                                                       *)
(*   17       case C:  18 continue                                         *)
(*   19       for  20 {  21 break   22 case D:  }                          *)
(*   23       throw  }                                                     *)
(*   24     break                                                          *)
(*   25     lambda 26 {  27 return  }                                      *)
(*   28     throw                                                          *)
(*   29     goto Out                                                       *)
(*   30     goto In                                                        *)
(*   31     In:  }                                                         *)
(*   32   return                                                           *)
(*   33   Out:  }                                                          *)
(***************************************************************************)
CfNode(kind, parent, label) == [kind |-> kind, parent |-> parent, label |-> label]

NoCfNode == 0

CfTree ==
    << CfNode("FunctionDecl", 0, 0),  CfNode("CompoundStmt", 1, 0),
       CfNode("ForStmt", 2, 0),       CfNode("CompoundStmt", 3, 0),
       CfNode("BreakStmt", 4, 0),     CfNode("WhileStmt", 4, 0),
       CfNode("CompoundStmt", 6, 0),  CfNode("ContinueStmt", 7, 0),
       CfNode("ReturnStmt", 7, 0),    CfNode("ContinueStmt", 4, 0),
       CfNode("SwitchStmt", 4, 0),    CfNode("CompoundStmt", 11, 0),
       CfNode("SwitchCase", 12, 0),   CfNode("SwitchCase", 13, 0),
       CfNode("BreakStmt", 14, 0),    CfNode("ReturnStmt", 12, 0),
       CfNode("SwitchCase", 12, 0),   CfNode("ContinueStmt", 17, 0),
       CfNode("ForStmt", 12, 0),      CfNode("CompoundStmt", 19, 0),
       CfNode("BreakStmt", 20, 0),    CfNode("SwitchCase", 20, 0),
       CfNode("CXXThrowExpr", 12, 0), CfNode("BreakStmt", 4, 0),
       CfNode("LambdaExpr", 4, 0),    CfNode("CompoundStmt", 25, 0),
       CfNode("ReturnStmt", 26, 0),   CfNode("CXXThrowExpr", 4, 0),
       CfNode("GotoStmt", 4, 33),     CfNode("GotoStmt", 4, 31),
       CfNode("LabelStmt", 4, 0),     CfNode("ReturnStmt", 2, 0),
       CfNode("LabelStmt", 2, 0) >>

CfNodes == 1..Len(CfTree)

\* The children of a node in source order.
CfChildren(n) ==
    LET F[i \in 0..Len(CfTree)] ==
            IF i = 0 THEN <<>>
            ELSE IF CfTree[i].parent = n THEN Append(F[i - 1], i) ELSE F[i - 1]
    IN  F[Len(CfTree)]

\* The nodes from n up to the function, n first.
RECURSIVE CfAncestors(_)
CfAncestors(n) == IF n = NoCfNode THEN <<>> ELSE <<n>> \o CfAncestors(CfTree[n].parent)

CfSubtree(n) == { d \in CfNodes : n \in Range(CfAncestors(d)) }

SetMax(S) == CHOOSE x \in S : \A y \in S : y <= x

SetMin(S) == CHOOSE x \in S : \A y \in S : x <= y

\* getSourceRange().getBegin() and getEnd() of a node.
CfBeginLoc(n) == n

CfEndLoc(n) == SetMax(CfSubtree(n))

\* getFunctionBody(N): the body of a function, block, lambda or Objective-C
\* method, NoCfNode for nullptr.
getFunctionBody(n) ==
    IF CfTree[n].kind \in {"FunctionDecl", "BlockDecl", "LambdaExpr", "ObjCMethodDecl"}
    THEN CfChildren(n)[1] ELSE NoCfNode

\* getLoopBody(N)
getLoopBody(n) ==
    IF CfTree[n].kind \in {"ForStmt", "CXXForRangeStmt", "WhileStmt", "DoStmt"}
    THEN CfChildren(n)[1] ELSE NoCfNode

\* enum Target; a bitmask of Target is the set of its bits.
All == {"Break", "Continue", "Return", "Case", "Throw", "Goto"}

\* SM.isBeforeInTranslationUnit(L, R)
isBeforeInTranslationUnit(L, R) == L < R

\* A variant of the scope exit that leaves Ignore as the subtree set it.
RestoredIgnore_Kept(OldIgnore, Ignore) == Ignore

\* RestoreIgnore of filterAndTraverse: Ignore = OldIgnore.
RestoredIgnore(OldIgnore, Ignore) == OldIgnore

\* The mask filterAndTraverse sets for a traversal into D.
filterAndTraverse(D, Ignore) ==
    IF getFunctionBody(D) # NoCfNode THEN All
    ELSE IF getLoopBody(D) # NoCfNode THEN Ignore \cup {"Continue", "Break"}
    ELSE IF CfTree[D].kind = "SwitchStmt" THEN Ignore \cup {"Break", "Case"}
    ELSE Ignore

\* found(T, Loc): Result after the call.
found(T, Loc, Ignore, Bounds, Result) ==
    IF T \in Ignore THEN Result
    ELSE IF \/ isBeforeInTranslationUnit(Loc, Bounds.Begin)
            \/ isBeforeInTranslationUnit(Bounds.End, Loc)
         THEN Result
         ELSE Append(Result, Loc)

\* The Visit* functions of FindControlFlow: Result after visiting node n.
Visit(n, Ignore, Bounds, Result) ==
    LET kind == CfTree[n].kind
        LD == CfTree[n].label
    IN  CASE kind = "ReturnStmt" -> found("Return", n, Ignore, Bounds, Result)
          [] kind = "BreakStmt" -> found("Break", n, Ignore, Bounds, Result)
          [] kind = "ContinueStmt" -> found("Continue", n, Ignore, Bounds, Result)
          [] kind = "SwitchCase" -> found("Case", n, Ignore, Bounds, Result)
          [] kind = "CXXThrowExpr" -> found("Throw", n, Ignore, Bounds, Result)
          [] kind = "GotoStmt" ->
                IF /\ LD # NoCfNode
                   /\ \/ isBeforeInTranslationUnit(LD, Bounds.Begin)
                      \/ isBeforeInTranslationUnit(Bounds.End, LD)
                THEN found("Goto", n, Ignore, Bounds, Result)
                ELSE Result
          [] OTHER -> Result

\* The switch a case belongs to: the nearest switch around it.
SwitchOf(c) ==
    LET S == { a \in Range(CfAncestors(c)) : CfTree[a].kind = "SwitchStmt" }
    IN  IF S = {} THEN NoCfNode ELSE SetMax(S)

\* Case->getSubStmt()
getSubStmt(c) == IF CfChildren(c) = <<>> THEN NoCfNode ELSE CfChildren(c)[1]

\* findCaseBounds(Switch, Loc, SM)
findCaseBounds(Switch, Loc) ==
    LET Cases == { c \in CfNodes : CfTree[c].kind = "SwitchCase" /\ SwitchOf(c) = Switch }
        After == { c \in Cases : isBeforeInTranslationUnit(Loc, c) }
        Before == Cases \ After
        End == IF After = {} THEN CfEndLoc(Switch) ELSE SetMin(After)
        Rewind[c \in Cases] ==
            LET Prev == { p \in Cases : p < c }
            IN  IF Prev # {} /\ getSubStmt(SetMax(Prev)) = c
                THEN Rewind[SetMax(Prev)] ELSE c
    IN  IF Before = {} THEN [Begin |-> CfBeginLoc(Switch), End |-> End]
        ELSE [Begin |-> Rewind[SetMax(Before)], End |-> End]

InvalidBounds == [Begin |-> 0, End |-> 0]

\* enum class Cur of relatedControlFlow, for the node under the cursor.
Cur(N) ==
    CASE CfTree[N].kind = "BreakStmt" -> "Break"
      [] CfTree[N].kind = "ContinueStmt" -> "Continue"
      [] CfTree[N].kind = "ReturnStmt" -> "Return"
      [] CfTree[N].kind = "CXXThrowExpr" -> "Throw"
      [] CfTree[N].kind = "SwitchCase" -> "Case"
      [] OTHER -> "None"

\* The loop of relatedControlFlow that looks up the tree from P for a root:
\* Root, Bounds, and what it adds to Result.
RECURSIVE LookUp(_, _)
LookUp(P, N) ==
    LET Cursor == Cur(N)
        Nothing == [Root |-> NoCfNode, Bounds |-> InvalidBounds, Result |-> <<>>]
    IN  IF P = NoCfNode THEN Nothing
        ELSE IF getFunctionBody(P) # NoCfNode
        THEN IF Cursor \in {"Return", "Throw"}
             THEN [Nothing EXCEPT !.Root = getFunctionBody(P)]
             ELSE Nothing
        ELSE IF getLoopBody(P) # NoCfNode /\ Cursor \in {"None", "Break", "Continue"}
        THEN [Nothing EXCEPT !.Root = getLoopBody(P), !.Result = <<CfBeginLoc(P)>>]
        ELSE IF CfTree[P].kind = "SwitchStmt" /\ Cursor \in {"Break", "Case"}
        THEN [Root |-> CfChildren(P)[1], Bounds |-> findCaseBounds(P, CfBeginLoc(N)),
              Result |-> <<P>>]
        ELSE IF Cursor = "None" THEN Nothing
        ELSE LookUp(CfTree[P].parent, N)

\* Stack holds the calls of filterAndTraverse in progress: the node, the
\* Ignore it will restore, and how many children Delegate has traversed.
CfIdle ==
    [pc |-> "idle", N |-> NoCfNode, Root |-> NoCfNode, Bounds |-> InvalidBounds,
     Ignore |-> {}, Stack |-> <<>>, Result |-> <<>>, Before |-> 0]

\* TraverseStmt(S) or TraverseDecl(D) up to the first child: filterAndTraverse
\* masks the targets and, unless all are masked, the node is visited.
Traverse(s, D) ==
    LET Ignore == filterAndTraverse(D, s.Ignore)
        Pruned == Ignore = All
    IN  [s EXCEPT !.Ignore = Ignore,
                  !.Stack = Append(s.Stack, [D |-> D, OldIgnore |-> s.Ignore,
                                             Next |-> IF Pruned THEN Len(CfChildren(D)) + 1
                                                      ELSE 1]),
                  !.Result = IF Pruned THEN s.Result
                             ELSE Visit(D, Ignore, s.Bounds, s.Result)]

\* relatedControlFlow(N) up to the traversal of the root's first child;
\* Before counts the locations in Result ahead of the traversal.
RelatedControlFlowCall(N) ==
    /\ cf.pc = "idle"
    /\ LET Goto == IF CfTree[N].kind # "GotoStmt" THEN <<>>
                   ELSE IF CfTree[N].label = NoCfNode THEN <<N>>
                   ELSE <<N, CfTree[N].label>>
           Up == LookUp(N, N)
           Result == Goto \o Up.Result
           Bounds == IF Up.Bounds = InvalidBounds
                     THEN [Begin |-> CfBeginLoc(Up.Root), End |-> CfEndLoc(Up.Root)]
                     ELSE Up.Bounds
       IN  IF Up.Root = NoCfNode
           THEN cf' = [cf EXCEPT !.pc = "done", !.N = N, !.Result = Result,
                                 !.Before = Len(Result)]
           ELSE cf' = Traverse([cf EXCEPT !.pc = "traversing", !.N = N,
                                          !.Root = Up.Root, !.Bounds = Bounds,
                                          !.Result = Result, !.Before = Len(Result)],
                               Up.Root)
    /\ UNCHANGED <<tx, ls, rf, fr, en, th, ch, ar, pd, nb>>

\* Delegate() reaches the next child of the node on top.
TraverseChild ==
    /\ cf.pc = "traversing"
    /\ cf.Stack # <<>>
    /\ LET Top == cf.Stack[Len(cf.Stack)]
       IN  /\ Top.Next <= Len(CfChildren(Top.D))
           /\ cf' = Traverse([cf EXCEPT !.Stack[Len(cf.Stack)].Next = Top.Next + 1],
                             CfChildren(Top.D)[Top.Next])
    /\ UNCHANGED <<tx, ls, rf, fr, en, th, ch, ar, pd, nb>>

\* filterAndTraverse returns: the scope exit restores Ignore; the return of
\* the root's traversal ends relatedControlFlow.
TraverseReturn ==
    /\ cf.pc = "traversing"
    /\ cf.Stack # <<>>
    /\ LET Top == cf.Stack[Len(cf.Stack)]
       IN  /\ Top.Next > Len(CfChildren(Top.D))
           /\ cf' = [cf EXCEPT !.Ignore = RestoredIgnore(Top.OldIgnore, cf.Ignore),
                               !.Stack = SubSeq(cf.Stack, 1, Len(cf.Stack) - 1),
                               !.pc = IF Len(cf.Stack) = 1 THEN "done" ELSE "traversing"]
    /\ UNCHANGED <<tx, ls, rf, fr, en, th, ch, ar, pd, nb>>

ControlFlowInit ==
    /\ cf = CfIdle
    /\ tx = Off /\ ls = Off /\ rf = Off /\ fr = Off /\ en = Off /\ th = Off
    /\ ch = Off /\ ar = Off /\ pd = Off /\ nb = Off

ControlFlowNext ==
    \/ \E N \in CfNodes : RelatedControlFlowCall(N)
    \/ TraverseChild
    \/ TraverseReturn

SpecControlFlow == ControlFlowInit /\ [][ControlFlowNext]_vars

\* The target a statement is reported as, "None" for any other node.
C28_TargetOf(n) ==
    CASE CfTree[n].kind = "BreakStmt" -> "Break"
      [] CfTree[n].kind = "ContinueStmt" -> "Continue"
      [] CfTree[n].kind = "ReturnStmt" -> "Return"
      [] CfTree[n].kind = "SwitchCase" -> "Case"
      [] CfTree[n].kind = "CXXThrowExpr" -> "Throw"
      [] CfTree[n].kind = "GotoStmt" -> "Goto"
      [] OTHER -> "None"

\* Node m masks target T: a function body, block or lambda masks every
\* target, a loop break and continue, a switch break and case.
C28_Masks(m, T) ==
    \/ CfTree[m].kind \in {"FunctionDecl", "BlockDecl", "LambdaExpr", "ObjCMethodDecl"}
    \/ /\ CfTree[m].kind \in {"ForStmt", "CXXForRangeStmt", "WhileStmt", "DoStmt"}
       /\ T \in {"Break", "Continue"}
    \/ CfTree[m].kind = "SwitchStmt" /\ T \in {"Break", "Case"}

\* The nodes on the path from the traversal root down to n.
C28_Path(n) == Range(CfAncestors(n)) \cap CfSubtree(cf.Root)

C28_Unmasked(n) == \A m \in C28_Path(n) : ~C28_Masks(m, C28_TargetOf(n))

C28_InBounds(Loc) == cf.Bounds.Begin <= Loc /\ Loc <= cf.Bounds.End

\* The locations the traversal reported.
C28_Reported == Range(SubSeq(cf.Result, cf.Before + 1, Len(cf.Result)))

\* The statements under the traversal root.
C28_Statements == { n \in CfSubtree(cf.Root) : C28_TargetOf(n) # "None" }

\* During the traversal the mask in force is the mask of the path from the
\* root down to the node being traversed, whatever subtrees were traversed
\* before; after the traversal it is empty again.
C28_MaskIsOfPath ==
    /\ (cf.pc = "traversing" /\ cf.Stack # <<>>) =>
          cf.Ignore = { T \in All :
                          \E m \in C28_Path(cf.Stack[Len(cf.Stack)].D) : C28_Masks(m, T) }
    /\ cf.pc = "done" => cf.Ignore = {}

====
